---- MODULE Spec2Model ----
(***************************************************************************)
(* Model of the land-use survey part of smart-saard's tax map view:        *)
(*   - the rai-ngan-wah area helpers of components/TaxMapView.js,          *)
(*   - the LandUsePopup allocation editor,                                 *)
(*   - the map view's landUseAssignments state, and                        *)
(*   - the /api/land-use request handler that stores the assignments.      *)
(*                                                                         *)
(* Texts are sequences of one-character strings, so that split, parseFloat *)
(* and number formatting are computed character by character.  Numbers are *)
(* fixed-point integers counting 10^-Decimals wah.  JavaScript values that *)
(* can be of several types are tagged records (JStr, JNum, JNull, JUndef). *)
(***************************************************************************)
EXTENDS Integers, Sequences, FiniteSets, TLC

\* ------------------------------------------------------------------ bounds

\* Fractional decimal digits a number of the model carries.
Decimals == 3
\* Most actions the user takes in a session.
MaxSteps == 5
\* Most '-'-separated components of a text enumerated as a helper's input.
MaxParts == 4
\* Fractional decimal digits of the numbers where values below 10^-6 occur.
FineDecimals == 7

Scale == 10 ^ Decimals

\* ---------------------------------------------------------- JS values

JStr(s) == [t |-> "string", s |-> s]
JNum(n) == [t |-> "number", n |-> n]
JNull == [t |-> "null"]
JUndef == [t |-> "undefined"]
JNaN == [t |-> "NaN"]
\* A land-use category key as a string value (the legacy stored shape).
JKey(k) == [t |-> "key", k |-> k]
JArr(items) == [t |-> "array", items |-> items]
\* The object { types, areas }.
JObj(types, areas) == [t |-> "object", types |-> types, areas |-> areas]
\* A map as a value of its own, and an object whose types and areas fields
\* hold any values (JUndef for an absent field).
JMap(m) == [t |-> "map", m |-> m]
JLoose(types, areas) == [t |-> "loose", types |-> types, areas |-> areas]

\* JavaScript truthiness: null, undefined, NaN, '' and 0 are falsy.
Truthy(v) ==
  CASE v.t = "string" -> v.s # <<>>
    [] v.t = "number" -> v.n # 0
    [] v.t \in {"key", "array", "object", "map", "loose"} -> TRUE
    [] OTHER -> FALSE

\* ---------------------------------------------------------- text helpers

DigitChars == <<"0", "1", "2", "3", "4", "5", "6", "7", "8", "9">>

IsDigit(c) == \E i \in 1..10 : DigitChars[i] = c

DigitVal(c) == (CHOOSE i \in 1..10 : DigitChars[i] = c) - 1

RECURSIVE SplitFrom(_, _, _)
\* The segments of s[i..] between '-' characters, cur being the segment so far.
SplitFrom(s, i, cur) ==
  IF i > Len(s) THEN <<cur>>
  ELSE IF s[i] = "-" THEN <<cur>> \o SplitFrom(s, i + 1, <<>>)
  ELSE SplitFrom(s, i + 1, Append(cur, s[i]))

\* String.prototype.split('-').
Split(s) == SplitFrom(s, 1, <<>>)

RECURSIVE DigitRun(_, _)
\* The longest run of digits of s starting at position i.
DigitRun(s, i) ==
  IF i > Len(s) \/ ~IsDigit(s[i]) THEN <<>>
  ELSE <<s[i]>> \o DigitRun(s, i + 1)

RECURSIVE IntOfDigits(_)
IntOfDigits(ds) ==
  IF ds = <<>> THEN 0
  ELSE 10 * IntOfDigits(SubSeq(ds, 1, Len(ds) - 1)) + DigitVal(ds[Len(ds)])

\* The fraction .ds in units of 10^-Decimals (digits past Decimals are dropped).
FracOfDigits(ds) ==
  LET padded == [i \in 1..Decimals |-> IF i <= Len(ds) THEN ds[i] ELSE "0"]
  IN IntOfDigits(padded)

\* The parts of the longest numeric prefix of s, as parseFloat scans it:
\* an optional sign, digits, an optional '.' and digits.
NumPrefix(s) ==
  LET signed == Len(s) > 0 /\ s[1] \in {"+", "-"}
      start == IF signed THEN 2 ELSE 1
      ip == DigitRun(s, start)
      dot == start + Len(ip)
      fp == IF dot <= Len(s) /\ s[dot] = "." THEN DigitRun(s, dot + 1) ELSE <<>>
  IN [neg |-> signed /\ s[1] = "-", ip |-> ip, fp |-> fp]

\* parseFloat(s) is not NaN.
ParsesAsNumber(s) ==
  LET p == NumPrefix(s) IN p.ip # <<>> \/ p.fp # <<>>

\* `parseFloat(s) || 0`: the value of the numeric prefix, 0 for NaN.
ParseFloatOr0(s) ==
  IF ~ParsesAsNumber(s) THEN 0
  ELSE LET p == NumPrefix(s)
           mag == IntOfDigits(p.ip) * Scale + FracOfDigits(p.fp)
       IN IF p.neg THEN 0 - mag ELSE mag

RECURSIVE DigitsOfNat(_)
DigitsOfNat(n) ==
  IF n < 10 THEN <<DigitChars[n + 1]>>
  ELSE Append(DigitsOfNat(n \div 10), DigitChars[(n % 10) + 1])

RECURSIVE StripZeros(_)
StripZeros(ds) ==
  IF ds # <<>> /\ ds[Len(ds)] = "0" THEN StripZeros(SubSeq(ds, 1, Len(ds) - 1))
  ELSE ds

\* Number-to-string conversion of a template literal, for n >= 0:
\* the integer part, then '.' and the fraction without trailing zeros.
NumToStr(n) ==
  LET ip == DigitsOfNat(n \div Scale)
      f == n % Scale
      fd == [i \in 1..Decimals |-> DigitChars[((f \div (10 ^ (Decimals - i))) % 10) + 1]]
  IN IF f = 0 THEN ip ELSE ip \o <<".">> \o StripZeros(fd)

\* Math.floor(a / b) for a >= 0, b > 0, both in the same unit.
Floor(a, b) == a \div b

\* Math.round(x * 100) / 100 for x >= 0: to the nearest hundredth, halves up.
Round2(x) ==
  LET q == Scale \div 100 IN ((2 * x + q) \div (2 * q)) * q

\* ---------------------------------------------------------- area helpers

\* `parts[i] || 0` after `.map((s) => parseFloat(s) || 0)`.
PartNum(parts, i) == IF i <= Len(parts) THEN ParseFloatOr0(parts[i]) ELSE 0

parseAreaToWah_SwappedWeights(str) ==
  IF ~Truthy(str) \/ str.t # "string" THEN 0
  ELSE LET parts == Split(str.s)
       IN PartNum(parts, 1) * 100 + PartNum(parts, 2) * 400 + PartNum(parts, 3)

parseAreaToWah_CoercesNumbers(str) ==
  IF str.t = "number" THEN str.n
  ELSE IF ~Truthy(str) \/ str.t # "string" THEN 0
  ELSE LET parts == Split(str.s)
       IN PartNum(parts, 1) * 400 + PartNum(parts, 2) * 100 + PartNum(parts, 3)

parseAreaToWah(str) ==
  IF ~Truthy(str) \/ str.t # "string" THEN 0
  ELSE LET parts == Split(str.s)
           rai == PartNum(parts, 1)
           ngan == PartNum(parts, 2)
           wah == PartNum(parts, 3)
       IN rai * 400 + ngan * 100 + wah

wahToAreaStr_Round1(totalWah) ==
  IF ~Truthy(totalWah) \/ totalWah.n <= 0 THEN <<"0", "-", "0", "-", "0">>
  ELSE LET rai == Floor(totalWah.n, 400 * Scale)
           remain == totalWah.n - rai * 400 * Scale
           ngan == Floor(remain, 100 * Scale)
           q == Scale \div 10
           wah == (((2 * (remain - ngan * 100 * Scale)) + q) \div (2 * q)) * q
       IN DigitsOfNat(rai) \o <<"-">> \o DigitsOfNat(ngan) \o <<"-">> \o NumToStr(wah)

wahToAreaStr_EmptyForFalsy(totalWah) ==
  IF ~Truthy(totalWah) THEN <<>>
  ELSE IF totalWah.n <= 0 THEN <<"0", "-", "0", "-", "0">>
  ELSE LET rai == Floor(totalWah.n, 400 * Scale)
           remain == totalWah.n - rai * 400 * Scale
           ngan == Floor(remain, 100 * Scale)
           wah == Round2(remain - ngan * 100 * Scale)
       IN DigitsOfNat(rai) \o <<"-">> \o DigitsOfNat(ngan) \o <<"-">> \o NumToStr(wah)

\* totalWah is a number, null, undefined or NaN.
wahToAreaStr(totalWah) ==
  IF ~Truthy(totalWah) \/ totalWah.n <= 0 THEN <<"0", "-", "0", "-", "0">>
  ELSE LET rai == Floor(totalWah.n, 400 * Scale)
           remain == totalWah.n - rai * 400 * Scale
           ngan == Floor(remain, 100 * Scale)
           wah == Round2(remain - ngan * 100 * Scale)
       IN DigitsOfNat(rai) \o <<"-">> \o DigitsOfNat(ngan) \o <<"-">> \o NumToStr(wah)

\* The i-th segment, '' when it is absent (the '0' case keeps the segment too).
PartText(parts, i) == IF i <= Len(parts) THEN parts[i] ELSE <<>>

parseAreaParts_ZeroIsEmpty(str) ==
  IF ~Truthy(str) \/ str.t # "string" THEN [rai |-> <<>>, ngan |-> <<>>, wah |-> <<>>]
  ELSE LET parts == Split(str.s)
           part(i) == IF PartText(parts, i) = <<"0">> THEN <<>> ELSE PartText(parts, i)
       IN [rai |-> part(1), ngan |-> part(2), wah |-> part(3)]

parseAreaParts(str) ==
  IF ~Truthy(str) \/ str.t # "string" THEN [rai |-> <<>>, ngan |-> <<>>, wah |-> <<>>]
  ELSE LET parts == Split(str.s)
       IN [rai |-> PartText(parts, 1), ngan |-> PartText(parts, 2),
           wah |-> PartText(parts, 3)]

partsToStr_ZeroForEmpty(rai, ngan, wah) ==
  LET z(x) == IF x = <<>> THEN <<"0">> ELSE x
  IN z(rai) \o <<"-">> \o z(ngan) \o <<"-">> \o z(wah)

partsToStr(rai, ngan, wah) == rai \o <<"-">> \o ngan \o <<"-">> \o wah

JThrow == [t |-> "throw"]

normalizeAreaStr_KeepsZero(str) ==
  IF ~Truthy(str) THEN JStr(<<>>)
  ELSE IF str.t # "string" THEN JThrow
  ELSE LET parts == Split(str.s)
       IN JStr(NumToStr(PartNum(parts, 1)) \o <<"-">> \o NumToStr(PartNum(parts, 2))
                 \o <<"-">> \o NumToStr(PartNum(parts, 3)))

normalizeAreaStr_WholeWah(str) ==
  IF ~Truthy(str) THEN JStr(<<>>)
  ELSE IF str.t # "string" THEN JThrow
  ELSE LET parts == Split(str.s)
           r == PartNum(parts, 1)
           n == PartNum(parts, 2)
           w == Floor(PartNum(parts, 3), Scale) * Scale
       IN IF r = 0 /\ n = 0 /\ w = 0 THEN JStr(<<>>)
          ELSE JStr(NumToStr(r) \o <<"-">> \o NumToStr(n) \o <<"-">> \o NumToStr(w))

\* A truthy value that is no string has no split method: the call throws.
normalizeAreaStr(str) ==
  IF ~Truthy(str) THEN JStr(<<>>)
  ELSE IF str.t # "string" THEN JThrow
  ELSE LET parts == Split(str.s)
           r == PartNum(parts, 1)
           n == PartNum(parts, 2)
           w == PartNum(parts, 3)
       IN IF r = 0 /\ n = 0 /\ w = 0 THEN JStr(<<>>)
          ELSE JStr(NumToStr(r) \o <<"-">> \o NumToStr(n) \o <<"-">> \o NumToStr(w))

EmptyMap == [k \in {} |-> <<>>]

\* The object { types: [], areas: {} }.
EmptyLU == [types |-> <<>>, areas |-> EmptyMap]

\* The fields of the result are a list and a map for the first four shapes;
\* for an object with any values in its fields they are those values, or
\* the literals [] and {}.
normalizeLUFull(val) ==
  IF ~Truthy(val) THEN EmptyLU
  ELSE IF val.t = "key" THEN [types |-> <<val.k>>, areas |-> EmptyMap]
  ELSE IF val.t = "array" THEN [types |-> val.items, areas |-> EmptyMap]
  ELSE IF val.t = "object" THEN [types |-> val.types, areas |-> val.areas]
  ELSE IF val.t = "loose" /\ Truthy(val.types)
    THEN [types |-> val.types,
          areas |-> IF Truthy(val.areas) THEN val.areas ELSE JMap(EmptyMap)]
  ELSE IF val.t = "loose" THEN [types |-> JArr(<<>>), areas |-> JMap(EmptyMap)]
  ELSE EmptyLU

normalizeLU(val) == normalizeLUFull(val).types

NoRet == [t |-> "none"]

\* ------------------------------------------------------------------ state

VARIABLES
  arg,                \* the argument of a helper call
  ret,                \* the value the call returned
  lastOp,             \* the operation that made the last step
  surveyMode,         \* TaxMapPage's survey-mode switch
  geojsonLayers,      \* the loaded layers: <<[id, name, features]>>
  tableLayerId,       \* the layer whose attribute table is open, or "null"
  rendered,           \* what the survey GeoJSON layer was created from
  landUseAssignments, \* parcel code -> stored assignment value
  popupInfo,          \* the open LandUsePopup's props, or JNull
  selected,           \* LandUsePopup state: selected category keys, in order
  areas,              \* LandUsePopup state: category key -> area text
  bulkBusy,           \* LandUseLegend state: a bulk assignment is running
  savePropTimer,      \* savePropTimerRef: the pending debounced save, or JNull
  net,                \* the HTTP exchanges under way
  serverAssignments,  \* _land-use-data.json: parcel code -> assignment value
  serverFiles,        \* public/geojson: file name -> features
  gone,               \* parcel codes of the deletions the server has stored
  showPanel,          \* the layer panel is open
  editingLayerId,     \* the layer whose shapes are being edited, or "null"
  editFeatureIdx,     \* the feature under the vertex editor, or JNull
  isDrawing,          \* a new polygon is being drawn
  drawnFeature,       \* the polygon just drawn, awaiting its properties, or JNull
  editSaving,         \* a shape is being saved
  steps               \* the user's actions so far

pureVars == <<arg, ret>>
popupVars == <<popupInfo, selected, areas>>
layerVars == <<geojsonLayers, tableLayerId, savePropTimer>>
serverVars == <<serverAssignments, serverFiles, gone>>
editVars == <<showPanel, editingLayerId, editFeatureIdx, isDrawing, drawnFeature,
              editSaving>>
vars == <<arg, ret, lastOp, surveyMode, geojsonLayers, tableLayerId, rendered,
          landUseAssignments, popupInfo, selected, areas, bulkBusy, savePropTimer,
          net, serverAssignments, serverFiles, gone, showPanel, editingLayerId,
          editFeatureIdx, isDrawing, drawnFeature, editSaving, steps>>

\* No layer is being edited.
NotEditing ==
  /\ editingLayerId = "null"
  /\ editFeatureIdx = JNull
  /\ isDrawing = FALSE
  /\ drawnFeature = JNull
  /\ editSaving = FALSE

\* A step the user takes, and a step of the server, a timer or a continuation.
UserStep == steps < MaxSteps /\ steps' = steps + 1
SystemStep == steps' = steps

\* A map with one more (or one replaced) entry, and with one entry deleted.
Put(m, k, v) == [x \in DOMAIN m \cup {k} |-> IF x = k THEN v ELSE m[x]]
Del(m, k) == [x \in DOMAIN m \ {k} |-> m[x]]
\* m[k], undefined when m has no property k.
Get(m, k) == IF k \in DOMAIN m THEN m[k] ELSE JUndef
\* areas[k] as a JS value.
AreaOf(a, k) == IF k \in DOMAIN a THEN JStr(a[k]) ELSE JUndef

Includes(seq, x) == \E i \in 1..Len(seq) : seq[i] = x

RECURSIVE Filter(_, _)
\* prev.filter((k) => k !== key)
Filter(seq, key) ==
  IF seq = <<>> THEN <<>>
  ELSE IF seq[1] = key THEN Filter(Tail(seq), key)
  ELSE <<seq[1]>> \o Filter(Tail(seq), key)

\* ------------------------------------------------- LandUsePopup (derived)

\* The category keys of LAND_USE_TYPES the model uses.
Keys == {"agriculture", "residential", "commercial"}

RECURSIVE SumAreas(_, _, _)
\* selected.reduce((sum, k) => k === skip ? sum : sum + parseAreaToWah(a[k]), 0);
\* skip is "" where the code sums every key.
SumAreas(sel, a, skip) ==
  IF sel = <<>> THEN 0
  ELSE (IF sel[1] = skip THEN 0 ELSE parseAreaToWah(AreaOf(a, sel[1])))
         + SumAreas(Tail(sel), a, skip)

totalWah == parseAreaToWah(popupInfo.totalArea)

usedWah == SumAreas(selected, areas, "")

remainWah == totalWah - usedWah

isOverLimit_NoTotalGuard == usedWah >= totalWah

isOverLimit == totalWah > 0 /\ usedWah > totalWah

\* The sum the popup shows after "เกินเนื้อที่รวม" when over the limit.
excessText == wahToAreaStr(JNum(usedWah - totalWah))

\* The popup is on screen: `surveyMode && popupInfo`.
PopupOpen == surveyMode /\ popupInfo # JNull

\* ------------------------------------------------------------ HTTP

\* Most requests under way at a time.
MaxInFlight == 2

Request(api, method, body, then) ==
  [api |-> api, method |-> method, body |-> body, state |-> "sent", then |-> then]

CanSend == Len(net) < MaxInFlight

RemoveAt(seq, i) == SubSeq(seq, 1, i - 1) \o SubSeq(seq, i + 1, Len(seq))

\* ---------------------------------------------------- map view: assignment

\* What the survey GeoJSON layer is created from when its key changes.
Snapshot(assignments, layers) == [assignments |-> assignments, layers |-> layers]

\* luData coerced to { types, areas } (the first statement of assignLandUse).
CoerceLU(luData) ==
  IF luData.t = "object" THEN [types |-> luData.types, areas |-> luData.areas]
  ELSE IF luData.t = "array" THEN [types |-> luData.items, areas |-> EmptyMap]
  ELSE IF Truthy(luData) THEN [types |-> <<luData.k>>, areas |-> EmptyMap]
  ELSE EmptyLU

assignLandUse_KeepsEmpty(parcelCode, luData) ==
  LET normalized == CoerceLU(luData)
      stored == JObj(normalized.types, normalized.areas)
  IN /\ CanSend
     /\ landUseAssignments' = Put(landUseAssignments, parcelCode, stored)
     /\ net' = Append(net, Request("land-use", "POST",
                  [parcelCode |-> parcelCode, landUse |-> stored], "assignLandUse"))

\* assignLandUse up to its await; the rest runs in AssignDone.
assignLandUse(parcelCode, luData) ==
  LET normalized == CoerceLU(luData)
      stored == JObj(normalized.types, normalized.areas)
      empty == Len(normalized.types) = 0
  IN /\ CanSend
     /\ landUseAssignments' =
          IF empty THEN Del(landUseAssignments, parcelCode)
          ELSE Put(landUseAssignments, parcelCode, stored)
     /\ net' = Append(net, Request("land-use", "POST",
                  [parcelCode |-> parcelCode,
                   landUse |-> IF empty THEN JStr(<<>>) ELSE stored],
                  "assignLandUse"))

\* ------------------------------------------------- LandUsePopup (handlers)

toggle_KeepsArea(key) ==
  /\ PopupOpen
  /\ selected' = IF Includes(selected, key) THEN Filter(selected, key)
                 ELSE Append(selected, key)
  /\ areas' = areas
  /\ lastOp' = [op |-> "toggle", key |-> key]
  /\ UserStep
  /\ UNCHANGED <<pureVars, editVars, surveyMode, layerVars, rendered, landUseAssignments,
                 popupInfo, bulkBusy, net, serverVars>>

toggle(key) ==
  /\ PopupOpen
  /\ IF Includes(selected, key)
       THEN /\ selected' = Filter(selected, key)
            /\ areas' = Del(areas, key)
       ELSE /\ selected' = Append(selected, key)
            /\ areas' = areas
  /\ lastOp' = [op |-> "toggle", key |-> key]
  /\ UserStep
  /\ UNCHANGED <<pureVars, editVars, surveyMode, layerVars, rendered, landUseAssignments,
                 popupInfo, bulkBusy, net, serverVars>>

\* The badges that call setPrimary are drawn for the selected keys only.
setPrimary(key) ==
  /\ PopupOpen
  /\ Includes(selected, key)
  /\ selected' = IF ~Includes(selected, key) THEN <<key>> \o selected
                 ELSE <<key>> \o Filter(selected, key)
  /\ lastOp' = [op |-> "setPrimary", key |-> key]
  /\ UserStep
  /\ UNCHANGED <<pureVars, editVars, surveyMode, layerVars, rendered, landUseAssignments,
                 popupInfo, areas, bulkBusy, net, serverVars>>

RECURSIVE KeepChars(_, _)
\* raw.replace(/[^...]/g, ''): the characters of raw that are in keep.
KeepChars(raw, keep) ==
  IF raw = <<>> THEN <<>>
  ELSE IF raw[1] \in keep THEN <<raw[1]>> \o KeepChars(Tail(raw), keep)
  ELSE KeepChars(Tail(raw), keep)

DigitSet == {DigitChars[i] : i \in 1..10}

FirstDot(s) == IF Includes(s, ".") THEN CHOOSE i \in 1..Len(s) :
                    s[i] = "." /\ \A j \in 1..(i - 1) : s[j] # "."
               ELSE 0

\* AreaInput.handleChange's cleaning of the typed field content.
CleanField(field, raw) ==
  IF field = "wah"
    THEN LET cleaned == KeepChars(raw, DigitSet \cup {"."})
             dotIdx == FirstDot(cleaned)
             after == KeepChars(SubSeq(cleaned, dotIdx + 1, Len(cleaned)), DigitSet)
         IN IF dotIdx = 0 THEN cleaned
            ELSE SubSeq(cleaned, 1, dotIdx)
                   \o SubSeq(after, 1, IF Len(after) < 2 THEN Len(after) ELSE 2)
    ELSE KeepChars(raw, DigitSet)

\* AreaInput.handleChange, commit and the popup's handleAreaChange: the three
\* local fields mirror parseAreaParts of the value the row was given.
handleChange(key, field, raw) ==
  /\ PopupOpen
  /\ Includes(selected, key)
  /\ LET value == IF Truthy(AreaOf(areas, key)) THEN areas[key] ELSE <<>>
         local == parseAreaParts(JStr(value))
         cleaned == CleanField(field, raw)
         v == CASE field = "rai" -> partsToStr(cleaned, local.ngan, local.wah)
                [] field = "ngan" -> partsToStr(local.rai, cleaned, local.wah)
                [] field = "wah" -> partsToStr(local.rai, local.ngan, cleaned)
     IN areas' = Put(areas, key, v)
  /\ lastOp' = [op |-> "handleChange", key |-> key, field |-> field]
  /\ UserStep
  /\ UNCHANGED <<pureVars, editVars, surveyMode, layerVars, rendered, landUseAssignments,
                 popupInfo, selected, bulkBusy, net, serverVars>>

\* totalWah minus what the selected categories other than key use.
RemainFor(key) == totalWah - SumAreas(selected, areas, key)

AutoOffered_WithoutTotal(key) ==
  PopupOpen /\ Includes(selected, key) /\ RemainFor(key) >= 0

\* The Auto button of a selected category's AreaInput is drawn when onAutoFill
\* is given (totalWah > 0) and the remainWah prop (totalWah minus the other
\* categories' areas when totalWah > 0, else 0) is > 0.
AutoOffered(key) ==
  /\ PopupOpen
  /\ Includes(selected, key)
  /\ totalWah > 0
  /\ (IF totalWah > 0 THEN RemainFor(key) ELSE 0) > 0

autoFillAreas_FillsTotal(key) ==
  IF totalWah > 0 THEN Put(areas, key, wahToAreaStr(JNum(totalWah))) ELSE areas

\* The areas autoFillRemain(key) sets.
autoFillAreas(key) ==
  LET otherUsed == SumAreas(selected, areas, key)
      remaining == totalWah - otherUsed
  IN IF remaining > 0 THEN Put(areas, key, wahToAreaStr(JNum(remaining)))
     ELSE areas

\* The Auto button of a selected category's row (drawn when onAutoFill is
\* given and the row's remainWah > 0) and autoFillRemain.
autoFillRemain(key) ==
  /\ AutoOffered(key)
  /\ areas' = autoFillAreas(key)
  /\ lastOp' = [op |-> "autoFillRemain", key |-> key]
  /\ UserStep
  /\ UNCHANGED <<pureVars, editVars, surveyMode, layerVars, rendered, landUseAssignments,
                 popupInfo, selected, bulkBusy, net, serverVars>>

cleanAreas_AsTyped == areas

\* The areas handleSave hands on: the non-empty normalized texts.
cleanAreas ==
  LET norm(k) == normalizeAreaStr(JStr(areas[k])).s
  IN [k \in {x \in DOMAIN areas : norm(x) # <<>>} |-> norm(k)]

SaveDisabled_Never == FALSE

\* The save button is `disabled={isOverLimit}`.
SaveDisabled == isOverLimit

handleSave ==
  /\ PopupOpen
  /\ ~SaveDisabled
  /\ assignLandUse(popupInfo.parcelCode, JObj(selected, cleanAreas))
  /\ lastOp' = [op |-> "handleSave", parcelCode |-> popupInfo.parcelCode]
  /\ UserStep
  /\ UNCHANGED <<pureVars, editVars, surveyMode, layerVars, rendered, popupVars, bulkBusy,
                 serverVars>>

\* The clear button is drawn when a category is selected.
handleClear ==
  /\ PopupOpen
  /\ Len(selected) > 0
  /\ assignLandUse(popupInfo.parcelCode, JObj(<<>>, EmptyMap))
  /\ lastOp' = [op |-> "handleClear", parcelCode |-> popupInfo.parcelCode]
  /\ UserStep
  /\ UNCHANGED <<pureVars, editVars, surveyMode, layerVars, rendered, popupVars, bulkBusy,
                 serverVars>>

\* The popup's close button.
onClose ==
  /\ PopupOpen
  /\ popupInfo' = JNull
  /\ selected' = <<>>
  /\ areas' = EmptyMap
  /\ lastOp' = [op |-> "onClose"]
  /\ UserStep
  /\ UNCHANGED <<pureVars, editVars, surveyMode, layerVars, rendered, landUseAssignments,
                 bulkBusy, net, serverVars>>

\* ------------------------------------------------------- map view

\* geojsonLayers.find((l) => l.id === id); the model's layer ids are unique.
HasLayer(layers, id) == \E i \in 1..Len(layers) : layers[i].id = id
LayerIdx(layers, id) == CHOOSE i \in 1..Len(layers) : layers[i].id = id

getParcelCode(props) == props.parcel_cod

\* props.Area || ... || null (the model's features carry the Area column).
getParcelArea(props) == IF Truthy(props.Area) THEN props.Area ELSE JNull

\* The survey-mode button of the page, and the effect on surveyMode: leaving
\* survey mode drops the popup.  The GeoJSON layers' key changes either way.
setSurveyMode ==
  /\ surveyMode' = ~surveyMode
  /\ IF surveyMode THEN /\ popupInfo' = JNull
                        /\ selected' = <<>>
                        /\ areas' = EmptyMap
     ELSE UNCHANGED popupVars
  /\ rendered' = Snapshot(landUseAssignments, geojsonLayers)
  /\ lastOp' = [op |-> "setSurveyMode"]
  /\ UserStep
  /\ UNCHANGED <<pureVars, editVars, layerVars, landUseAssignments, bulkBusy, net, serverVars>>

\* The click handler onEachFeatureSurvey bound to feature f of layer l when the
\* survey GeoJSON layer was created, and the popup's effect on its props: the
\* popup state is (re)set unless the same luData objects are handed in again.
onFeatureClick(l, f) ==
  /\ surveyMode
  /\ l \in 1..Len(rendered.layers)
  /\ f \in 1..Len(rendered.layers[l].features)
  /\ LET props == rendered.layers[l].features[f]
         code == getParcelCode(props)
         luData == normalizeLUFull(Get(rendered.assignments, code))
         same == /\ popupInfo # JNull
                 /\ popupInfo.parcelCode = code
                 /\ popupInfo.fresh
     IN /\ popupInfo' = [parcelCode |-> code, currentTypes |-> luData.types,
                         currentAreas |-> luData.areas,
                         totalArea |-> getParcelArea(props), fresh |-> TRUE]
        /\ IF same THEN UNCHANGED <<selected, areas>>
           ELSE /\ selected' = luData.types
                /\ areas' = luData.areas
        /\ lastOp' = [op |-> "onFeatureClick", parcelCode |-> code]
  /\ UserStep
  /\ UNCHANGED <<pureVars, editVars, surveyMode, layerVars, rendered, landUseAssignments,
                 bulkBusy, net, serverVars>>

\* The popup's props after the survey layer was re-created under it.
Stale(info) == IF info = JNull THEN JNull ELSE [info EXCEPT !.fresh = FALSE]

\* assignLandUse after its await: the response (or a failure) has arrived.
AssignDone(i) ==
  /\ i \in 1..Len(net)
  /\ net[i].state = "done" /\ net[i].then = "assignLandUse"
  /\ net' = RemoveAt(net, i)
  /\ popupInfo' = JNull
  /\ selected' = <<>>
  /\ areas' = EmptyMap
  /\ rendered' = Snapshot(landUseAssignments, geojsonLayers)
  /\ lastOp' = [op |-> "AssignDone"]
  /\ SystemStep
  /\ UNCHANGED <<pureVars, editVars, surveyMode, layerVars, landUseAssignments, bulkBusy,
                 serverVars>>

allParcelCodes ==
  UNION {{getParcelCode(geojsonLayers[l].features[f]) :
            f \in 1..Len(geojsonLayers[l].features)} : l \in 1..Len(geojsonLayers)}

\* stats.unassigned of the legend.
Unassigned ==
  {c \in allParcelCodes :
     \/ ~Truthy(Get(landUseAssignments, c))
     \/ Len(normalizeLUFull(Get(landUseAssignments, c)).types) = 0}

\* The parcels whose primary category is fromType.
CodesOfType(fromType) ==
  {c \in allParcelCodes :
     LET arr == normalizeLU(Get(landUseAssignments, c))
     IN Len(arr) > 0 /\ arr[1] = fromType}

\* The first four LAND_USE_TYPES, which the legend offers to re-type.
RetypeKeys == {"agriculture", "residential", "commercial", "industrial"}

bulkAssignLandUse_KeepsAreas(parcelCodes, typeKey) ==
  LET bulkAssignments ==
        [c \in parcelCodes |->
           JObj(<<typeKey>>, normalizeLUFull(Get(landUseAssignments, c)).areas)]
  IN /\ CanSend
     /\ landUseAssignments' =
          [c \in DOMAIN landUseAssignments \cup parcelCodes |->
             IF c \in parcelCodes THEN bulkAssignments[c] ELSE landUseAssignments[c]]
     /\ rendered' = Snapshot(landUseAssignments', geojsonLayers)
     /\ popupInfo' = Stale(popupInfo)
     /\ net' = Append(net, Request("land-use", "PUT",
                  [assignments |-> bulkAssignments], "bulkAssignLandUse"))

bulkAssignLandUse(parcelCodes, typeKey) ==
  LET bulkAssignments == [c \in parcelCodes |-> JObj(<<typeKey>>, EmptyMap)]
  IN /\ CanSend
     /\ landUseAssignments' =
          [c \in DOMAIN landUseAssignments \cup parcelCodes |->
             IF c \in parcelCodes THEN bulkAssignments[c] ELSE landUseAssignments[c]]
     /\ rendered' = Snapshot(landUseAssignments', geojsonLayers)
     /\ popupInfo' = Stale(popupInfo)
     /\ net' = Append(net, Request("land-use", "PUT",
                  [assignments |-> bulkAssignments], "bulkAssignLandUse"))

\* The legend's "assign the remaining parcels" button (handleBulk).
handleBulk(bulkType) ==
  /\ surveyMode
  /\ ~bulkBusy /\ Unassigned # {}
  /\ bulkBusy' = TRUE
  /\ bulkAssignLandUse(Unassigned, bulkType)
  /\ lastOp' = [op |-> "handleBulk", codes |-> Unassigned, typeKey |-> bulkType]
  /\ UserStep
  /\ UNCHANGED <<pureVars, editVars, surveyMode, layerVars, selected, areas, serverVars>>

\* The legend's "change fromType to bulkType" buttons.
handleRetype(fromType, bulkType) ==
  /\ surveyMode
  /\ ~bulkBusy
  /\ fromType \in RetypeKeys /\ fromType # bulkType
  /\ CodesOfType(fromType) # {}
  /\ bulkBusy' = TRUE
  /\ bulkAssignLandUse(CodesOfType(fromType), bulkType)
  /\ lastOp' = [op |-> "handleRetype", codes |-> CodesOfType(fromType),
                typeKey |-> bulkType]
  /\ UserStep
  /\ UNCHANGED <<pureVars, editVars, surveyMode, layerVars, selected, areas, serverVars>>

\* onBulkAssign has settled: the legend's buttons are enabled again.
BulkDone(i) ==
  /\ i \in 1..Len(net)
  /\ net[i].state = "done" /\ net[i].then = "bulkAssignLandUse"
  /\ net' = RemoveAt(net, i)
  /\ bulkBusy' = FALSE
  /\ lastOp' = [op |-> "BulkDone"]
  /\ SystemStep
  /\ UNCHANGED <<pureVars, editVars, surveyMode, layerVars, rendered, landUseAssignments,
                 popupVars, serverVars>>

\* ------------------------------------------------- attribute table

\* The table button of a layer in the panel, and the table's close button.
toggleTable(id) ==
  /\ HasLayer(geojsonLayers, id)
  /\ showPanel \/ tableLayerId = id
  /\ tableLayerId' = IF tableLayerId = id THEN "null" ELSE id
  /\ lastOp' = [op |-> "toggleTable", id |-> id]
  /\ UserStep
  /\ UNCHANGED <<pureVars, editVars, surveyMode, geojsonLayers, savePropTimer, rendered,
                 landUseAssignments, popupVars, bulkBusy, net, serverVars>>

\* Number(s) is not NaN and s.trim() is not empty, for a text of digits, '.',
\* '+', '-' and letters: the whole text is one decimal literal.
IsNumberText(s) ==
  LET p == NumPrefix(s)
      signLen == IF Len(s) > 0 /\ s[1] \in {"+", "-"} THEN 1 ELSE 0
      dotLen == IF Includes(s, ".") THEN 1 ELSE 0
  IN /\ ParsesAsNumber(s)
     /\ Len(s) = signLen + Len(p.ip) + Len(p.fp) + dotLen
     /\ KeepChars(s, {"."}) \in {<<>>, <<".">>}

\* /^0\d/.test(s)
LeadingZero(s) == Len(s) >= 2 /\ s[1] = "0" /\ IsDigit(s[2])

\* The value updateFeatureProperty stores for the text typed into a cell.
FinalVal(newValue) ==
  IF newValue = <<>> THEN JNull
  ELSE IF IsNumberText(newValue) /\ ~LeadingZero(newValue)
    THEN JNum(ParseFloatOr0(newValue))
  ELSE JStr(newValue)

\* String(oldVal ?? '')
CellText(v) ==
  CASE v.t = "string" -> v.s
    [] v.t = "number" -> NumToStr(v.n)
    [] OTHER -> <<>>

\* commitCellEdit of the Area column and updateFeatureProperty: the feature
\* changes at once, the POST of the layer's file is put off by 1500 ms.
updateFeatureProperty(featureIdx, newValue) ==
  /\ HasLayer(geojsonLayers, tableLayerId)
  /\ LET l == LayerIdx(geojsonLayers, tableLayerId)
         ly == geojsonLayers[l]
     IN /\ featureIdx \in 1..Len(ly.features)
        /\ CellText(ly.features[featureIdx].Area) # newValue
        /\ LET updatedFeatures ==
                 [ly.features EXCEPT ![featureIdx].Area = FinalVal(newValue)]
           IN /\ geojsonLayers' = [geojsonLayers EXCEPT ![l].features = updatedFeatures]
              /\ savePropTimer' = [filename |-> ly.name, data |-> updatedFeatures]
  /\ lastOp' = [op |-> "updateFeatureProperty", featureIdx |-> featureIdx]
  /\ UserStep
  /\ UNCHANGED <<pureVars, editVars, surveyMode, tableLayerId, rendered, landUseAssignments,
                 popupVars, bulkBusy, net, serverVars>>

\* The delete button of a table row and deleteFeature up to its await: the
\* feature leaves the layer at once, the layer's file is posted, and the map's
\* layers are created anew (mapKey); the pending debounced save is left alone.
deleteFeature(featureIdx) ==
  /\ HasLayer(geojsonLayers, tableLayerId)
  /\ CanSend
  /\ LET l == LayerIdx(geojsonLayers, tableLayerId)
         ly == geojsonLayers[l]
     IN /\ featureIdx \in 1..Len(ly.features)
        /\ LET updatedFeatures == RemoveAt(ly.features, featureIdx)
               code == getParcelCode(ly.features[featureIdx])
           IN /\ geojsonLayers' = [geojsonLayers EXCEPT ![l].features = updatedFeatures]
              /\ net' = Append(net,
                     [removed |-> code] @@
                       Request("geojson", "POST",
                               [filename |-> ly.name, data |-> updatedFeatures],
                               "deleteFeature"))
              /\ lastOp' = [op |-> "deleteFeature", parcelCode |-> code]
  /\ rendered' = Snapshot(landUseAssignments, geojsonLayers')
  /\ popupInfo' = Stale(popupInfo)
  /\ UserStep
  /\ UNCHANGED <<pureVars, editVars, surveyMode, tableLayerId, savePropTimer,
                 landUseAssignments, selected, areas, bulkBusy, serverVars>>

\* deleteFeature after its await: a toast is shown.
DeleteDone(i) ==
  /\ i \in 1..Len(net)
  /\ net[i].state = "done" /\ net[i].then = "deleteFeature"
  /\ net' = RemoveAt(net, i)
  /\ lastOp' = [op |-> "DeleteDone"]
  /\ SystemStep
  /\ UNCHANGED <<pureVars, editVars, surveyMode, layerVars, rendered, landUseAssignments,
                 popupVars, bulkBusy, serverVars>>

\* The debounce timer fires: the layer's file is posted.
SaveTimerFires ==
  /\ savePropTimer # JNull
  /\ CanSend
  /\ net' = Append(net, Request("geojson", "POST", savePropTimer, "saveTimer"))
  /\ savePropTimer' = JNull
  /\ lastOp' = [op |-> "SaveTimerFires"]
  /\ SystemStep
  /\ UNCHANGED <<pureVars, editVars, surveyMode, geojsonLayers, tableLayerId, rendered,
                 landUseAssignments, popupVars, bulkBusy, serverVars>>

\* The timer callback's fetch has settled; nothing follows it.
SaveDone(i) ==
  /\ i \in 1..Len(net)
  /\ net[i].state = "done" /\ net[i].then = "saveTimer"
  /\ net' = RemoveAt(net, i)
  /\ lastOp' = [op |-> "SaveDone"]
  /\ SystemStep
  /\ UNCHANGED <<pureVars, editVars, surveyMode, layerVars, rendered, landUseAssignments,
                 popupVars, bulkBusy, serverVars>>

\* ------------------------------------------------- /api/land-use

\* The assignments the POST branch writes.
LandUsePost(assignments, body) ==
  LET landUse == body.landUse
      isEmpty == ~Truthy(landUse) \/ (landUse.t = "array" /\ Len(landUse.items) = 0)
  IN IF isEmpty THEN Del(assignments, body.parcelCode)
     ELSE Put(assignments, body.parcelCode, landUse)

LandUsePut_Replaces(assignments, body) ==
  [c \in {x \in DOMAIN body.assignments : Truthy(body.assignments[x])} |->
     body.assignments[c]]

\* The assignments the PUT branch writes: merged, then falsy entries dropped.
LandUsePut(assignments, body) ==
  LET merged == [c \in DOMAIN assignments \cup DOMAIN body.assignments |->
                   IF c \in DOMAIN body.assignments THEN body.assignments[c]
                   ELSE assignments[c]]
  IN [c \in {x \in DOMAIN merged : Truthy(merged[x])} |-> merged[c]]

\* req.body has a truthy parcelCode (a non-empty string).
HasParcelCode(body) == "parcelCode" \in DOMAIN body /\ body.parcelCode # ""

\* req.body.assignments is truthy and typeof 'object': a map of parcel codes,
\* not a tagged scalar.
HasAssignments(body) ==
  "assignments" \in DOMAIN body /\ "t" \notin DOMAIN body.assignments

\* The status the handler answers with.
LandUseStatus(method, body) ==
  CASE method = "GET" -> 200
    [] method = "POST" -> IF HasParcelCode(body) THEN 200 ELSE 400
    [] method = "PUT" -> IF HasAssignments(body) THEN 200 ELSE 400
    [] OTHER -> 405

\* The handler takes one request: when it accepts a POST or PUT it reads the
\* file, changes it and writes it back, all synchronously.
landUseHandler(i) ==
  /\ i \in 1..Len(net)
  /\ net[i].state = "sent" /\ net[i].api = "land-use"
  /\ serverAssignments' =
       IF LandUseStatus(net[i].method, net[i].body) # 200 \/ net[i].method = "GET"
         THEN serverAssignments
       ELSE IF net[i].method = "POST" THEN LandUsePost(serverAssignments, net[i].body)
       ELSE LandUsePut(serverAssignments, net[i].body)
  /\ net' = [net EXCEPT ![i].state = "done"]
  /\ lastOp' = [op |-> "landUseHandler", method |-> net[i].method, body |-> net[i].body,
                status |-> LandUseStatus(net[i].method, net[i].body)]
  /\ SystemStep
  /\ UNCHANGED <<pureVars, editVars, surveyMode, layerVars, rendered, landUseAssignments,
                 popupVars, bulkBusy, serverFiles, gone>>

\* ------------------------------------------------- /api/geojson

geojsonHandler(i) ==
  /\ i \in 1..Len(net)
  /\ net[i].state = "sent" /\ net[i].api = "geojson"
  /\ serverFiles' =
       IF net[i].method = "DELETE" THEN Del(serverFiles, net[i].body.filename)
       ELSE Put(serverFiles, net[i].body.filename, net[i].body.data)
  /\ gone' = IF net[i].then = "deleteFeature" THEN gone \cup {net[i].removed}
             ELSE gone
  /\ net' = [net EXCEPT ![i].state = "done"]
  /\ lastOp' = [op |-> "geojsonHandler", filename |-> net[i].body.filename]
  /\ SystemStep
  /\ UNCHANGED <<pureVars, editVars, surveyMode, layerVars, rendered, landUseAssignments,
                 popupVars, bulkBusy, serverAssignments>>

\* ------------------------------------------------- the survey application

Text_10_0_0 == <<"1", "0", "-", "0", "-", "0">>
Text_1_0_0 == <<"1", "-", "0", "-", "0">>
Text_5_0_0 == <<"5", "-", "0", "-", "0">>
Text_3_0_0 == <<"3", "-", "0", "-", "0">>
Text_8_0_0 == <<"8", "-", "0", "-", "0">>

FileName == "parcels.geojson"

Features(area1, area2) ==
  << [parcel_cod |-> "p1", Area |-> area1], [parcel_cod |-> "p2", Area |-> area2] >>

\* The page after its first loads: one saved layer of two parcels is shown
\* with the layer panel open, the stored assignments are loaded, survey mode
\* is off.
Loaded(features, store) ==
  /\ arg = JNull
  /\ ret = NoRet
  /\ lastOp = [op |-> "init"]
  /\ surveyMode = FALSE
  /\ geojsonLayers = << [id |-> "L1", name |-> FileName, features |-> features] >>
  /\ tableLayerId = "null"
  /\ rendered = Snapshot(store, geojsonLayers)
  /\ landUseAssignments = store
  /\ popupInfo = JNull
  /\ selected = <<>>
  /\ areas = EmptyMap
  /\ bulkBusy = FALSE
  /\ savePropTimer = JNull
  /\ net = <<>>
  /\ serverAssignments = store
  /\ serverFiles = [n \in {FileName} |-> features]
  /\ gone = {}
  /\ showPanel = TRUE
  /\ NotEditing
  /\ steps = 0

Alloc(a, b) ==
  JObj(<<"agriculture", "residential">>,
       [k \in {"agriculture", "residential"} |-> IF k = "agriculture" THEN a ELSE b])

\* Assignments an earlier session can have left in the store.
Stores ==
  { EmptyMap,
    [c \in {"p1"} |-> Alloc(Text_5_0_0, Text_3_0_0)],
    [c \in {"p1", "p2"} |->
       IF c = "p1" THEN Alloc(Text_5_0_0, Text_3_0_0)
       ELSE JObj(<<"commercial">>, EmptyMap)] }

Init ==
  \E store \in Stores : Loaded(Features(JStr(Text_10_0_0), JStr(Text_1_0_0)), store)

\* What the user types into a field of an area row, and into an Area cell.
TypedFields ==
  { <<"rai", <<"8">> >>, <<"rai", <<"0">> >>,
    <<"wah", <<"a", "0", ".", "5", ".", "0", "5">> >> }

TypedCells == { Text_1_0_0, <<"5">> }

\* The rows of the attribute table the user edits.
EditedRows == {1}

\* The rows of the attribute table the user deletes.
DeletedRows == {1, 2}

SurveyKeys == {"agriculture", "residential"}

Next ==
  \/ setSurveyMode
  \/ \E f \in 1..2 : onFeatureClick(1, f)
  \/ \E k \in SurveyKeys : toggle(k)
  \/ \E k \in SurveyKeys : setPrimary(k)
  \/ \E k \in SurveyKeys, t \in TypedFields : handleChange(k, t[1], t[2])
  \/ \E k \in SurveyKeys : autoFillRemain(k)
  \/ handleSave
  \/ handleClear
  \/ onClose
  \/ \E i \in 1..MaxInFlight : AssignDone(i)
  \/ \E k \in SurveyKeys : handleBulk(k)
  \/ \E from, to \in SurveyKeys : handleRetype(from, to)
  \/ \E i \in 1..MaxInFlight : BulkDone(i)
  \/ toggleTable("L1")
  \/ \E f \in EditedRows, v \in TypedCells : updateFeatureProperty(f, v)
  \/ \E f \in DeletedRows : deleteFeature(f)
  \/ \E i \in 1..MaxInFlight : DeleteDone(i)
  \/ SaveTimerFires
  \/ \E i \in 1..MaxInFlight : SaveDone(i)
  \/ \E i \in 1..MaxInFlight : landUseHandler(i)
  \/ \E i \in 1..MaxInFlight : geojsonHandler(i)

Spec == Init /\ [][Next]_vars

\* ---------------------------------------------------- the helpers, called

\* What one component of a typed or stored area text can look like.
ComponentTexts ==
  { <<>>, <<"0">>, <<"1">>, <<"1", "2">>, <<"0", "0", "7">>, <<"1", ".", "5">>,
    <<".", "5">>, <<"4", "1", "a">>, <<"a">>, <<"+", "2">> }

RECURSIVE JoinDash(_)
\* The components joined by '-'.
JoinDash(cs) ==
  IF Len(cs) = 1 THEN cs[1]
  ELSE cs[1] \o <<"-">> \o JoinDash(SubSeq(cs, 2, Len(cs)))

ExampleTexts ==
  { <<"1", "2", "-", "2", "-", "4", "1">>,
    <<"1", "2", "-", "0", "-", "4", "1">>,
    <<"1", "0", "-", "0", "-", "0">>,
    <<"a", "b", "c", "-", "d", "e", "f", "-", "g", "h", "i">>,
    <<"1", "-", "2", "-", "3", "-", "4">>,
    <<"1", "2", "-", "0", "-">>,
    <<"0", "-", "0", "-", "0">> }

Texts ==
  {JoinDash(cs) : cs \in UNION {[1..n -> ComponentTexts] : n \in 1..MaxParts}}
    \cup ExampleTexts

WholeWah == {0, 1, 41, 99, 100, 399, 400, 800, 4841, 5041}

Scalars == {w * Scale + f : w \in WholeWah, f \in 0..(Scale - 1)}

\* The three field texts of an AreaInput, as partsToStr takes them.
JParts(rai, ngan, wah) == [t |-> "parts", rai |-> rai, ngan |-> ngan, wah |-> wah]

Args ==
  {JStr(s) : s \in Texts} \cup {JNum(x) : x \in Scalars}
    \cup {JNum(0 - 5 * Scale), JNull, JUndef, JNaN}
    \cup {JParts(r, n, w) : r \in ComponentTexts, n \in ComponentTexts, w \in ComponentTexts}

\* The application state while only the helpers are exercised.
Idle ==
  /\ surveyMode = FALSE
  /\ geojsonLayers = <<>>
  /\ tableLayerId = "null"
  /\ rendered = [assignments |-> EmptyMap, layers |-> <<>>]
  /\ landUseAssignments = EmptyMap
  /\ popupInfo = JNull
  /\ selected = <<>>
  /\ areas = EmptyMap
  /\ bulkBusy = FALSE
  /\ savePropTimer = JNull
  /\ net = <<>>
  /\ serverAssignments = EmptyMap
  /\ serverFiles = EmptyMap
  /\ gone = {}
  /\ showPanel = FALSE
  /\ NotEditing
  /\ steps = 0

appVars == <<surveyMode, geojsonLayers, tableLayerId, rendered, landUseAssignments,
             popupInfo, selected, areas, bulkBusy, savePropTimer, net,
             serverAssignments, serverFiles, gone, editVars, steps>>

InitPure ==
  /\ arg \in Args
  /\ ret = NoRet
  /\ lastOp = [op |-> "init"]
  /\ Idle

CallParseAreaToWah ==
  /\ lastOp.op = "init"
  /\ arg.t # "parts"
  /\ ret' = JNum(parseAreaToWah(arg))
  /\ lastOp' = [op |-> "parseAreaToWah"]
  /\ UNCHANGED <<arg, appVars>>

CallWahToAreaStr ==
  /\ lastOp.op = "init"
  /\ arg.t \notin {"string", "parts"}
  /\ ret' = JStr(wahToAreaStr(arg))
  /\ lastOp' = [op |-> "wahToAreaStr"]
  /\ UNCHANGED <<arg, appVars>>

CallParseAreaParts ==
  /\ lastOp.op = "init"
  /\ arg.t # "parts"
  /\ ret' = LET p == parseAreaParts(arg) IN JParts(p.rai, p.ngan, p.wah)
  /\ lastOp' = [op |-> "parseAreaParts"]
  /\ UNCHANGED <<arg, appVars>>

CallPartsToStr ==
  /\ lastOp.op = "init"
  /\ arg.t = "parts"
  /\ ret' = JStr(partsToStr(arg.rai, arg.ngan, arg.wah))
  /\ lastOp' = [op |-> "partsToStr"]
  /\ UNCHANGED <<arg, appVars>>

CallNormalizeAreaStr ==
  /\ lastOp.op = "init"
  /\ arg.t # "parts"
  /\ ret' = normalizeAreaStr(arg)
  /\ lastOp' = [op |-> "normalizeAreaStr"]
  /\ UNCHANGED <<arg, appVars>>

NextPure ==
  \/ CallParseAreaToWah
  \/ CallWahToAreaStr
  \/ CallParseAreaParts
  \/ CallPartsToStr
  \/ CallNormalizeAreaStr

SpecPure == InitPure /\ [][NextPure]_vars

\* ------------------------------------------------------------ C1

\* The numeric value of the i-th '-'-separated component of a text, 0 when the
\* component is missing or does not start with a number.
ComponentValue(s, i) ==
  LET parts == Split(s)
  IN IF i > Len(parts) \/ ~ParsesAsNumber(parts[i]) THEN 0
     ELSE ParseFloatOr0(parts[i])

WeightedSum(s) ==
  ComponentValue(s, 1) * 400 + ComponentValue(s, 2) * 100 + ComponentValue(s, 3)

Text_12_2_41 == <<"1", "2", "-", "2", "-", "4", "1">>
Text_12_0_41 == <<"1", "2", "-", "0", "-", "4", "1">>

\* C1 as stated: for every string input parseAreaToWah returns A*400 + B*100 + C,
\* with A, B, C the numeric values of the first three components (missing or
\* unparseable ones count 0, later ones are ignored), and "12-2-41" gives 4841.
C1_AsStated ==
  (lastOp.op = "parseAreaToWah" /\ arg.t = "string") =>
    /\ ret = JNum(WeightedSum(arg.s))
    /\ (arg.s = Text_12_2_41 => ret = JNum(4841 * Scale))

\* C1 amended: for every string input parseAreaToWah returns A*400 + B*100 + C
\* as above; "12-2-41" gives 12*400 + 2*100 + 41 = 5041.
C1_ParseIsWeightedSum ==
  (lastOp.op = "parseAreaToWah" /\ arg.t = "string") =>
    /\ ret = JNum(WeightedSum(arg.s))
    /\ (arg.s = Text_12_2_41 => ret = JNum(5041 * Scale))

C1_Witness ==
  /\ lastOp.op = "parseAreaToWah"
  /\ arg = JStr(Text_12_2_41)
  /\ ret = JNum(5041 * Scale)

\* ------------------------------------------------------------ C2

Abs(x) == IF x < 0 THEN 0 - x ELSE x

\* C2: for every non-negative scalar x, parseAreaToWah(wahToAreaStr(x)) is
\* within 0.01 wah of x.
C2_RoundTripWithinHundredth ==
  (lastOp.op = "wahToAreaStr" /\ arg.t = "number" /\ arg.n >= 0) =>
    100 * Abs(parseAreaToWah(ret) - arg.n) <= Scale

\* A scalar with more than two decimals, which the round trip does not return.
C2_Witness ==
  /\ lastOp.op = "wahToAreaStr"
  /\ arg.t = "number"
  /\ arg.n > 4841 * Scale
  /\ parseAreaToWah(ret) # arg.n

\* ------------------------------------------------------------ C3

\* The text wahToAreaStr is to return for a total > 0 (in model units).
MixedRadixText(total) ==
  LET rai == total \div (400 * Scale)
      ngan == (total - rai * 400 * Scale) \div (100 * Scale)
      rest == total - rai * 400 * Scale - ngan * 100 * Scale
      cents == (rest * 100 + (Scale \div 2)) \div Scale
  IN DigitsOfNat(rai) \o <<"-">> \o DigitsOfNat(ngan) \o <<"-">>
       \o NumToStr(cents * (Scale \div 100))

\* C3 as stated: for every total > 0 wahToAreaStr returns "{rai}-{ngan}-{wah}"
\* with rai = floor(total/400), ngan = floor((total - rai*400)/100) and wah the
\* rest rounded to two decimals, and 4841 gives "12-2-41".
C3_AsStated ==
  (lastOp.op = "wahToAreaStr" /\ arg.t = "number" /\ arg.n > 0) =>
    /\ ret = JStr(MixedRadixText(arg.n))
    /\ (arg.n = 4841 * Scale => ret = JStr(Text_12_2_41))

\* C3 amended: the same text for every total > 0; 4841 gives "12-0-41" (and
\* 5041 gives "12-2-41").
C3_FormatIsMixedRadix ==
  (lastOp.op = "wahToAreaStr" /\ arg.t = "number" /\ arg.n > 0) =>
    /\ ret = JStr(MixedRadixText(arg.n))
    /\ Len(Split(ret.s)) = 3
    /\ (arg.n = 4841 * Scale => ret = JStr(Text_12_0_41))
    /\ (arg.n = 5041 * Scale => ret = JStr(Text_12_2_41))

C3_Witness ==
  /\ lastOp.op = "wahToAreaStr"
  /\ arg = JNum(4841 * Scale)
  /\ ret = JStr(Text_12_0_41)

\* ------------------------------------------------- allocation (popup)

RECURSIVE SumOfSet(_, _)
SumOfSet(S, f) ==
  IF S = {} THEN 0
  ELSE LET x == CHOOSE y \in S : TRUE IN f[x] + SumOfSet(S \ {x}, f)

\* The scalar wah of the areas a holds for the selected keys other than skip.
AllocatedWah(sel, a, skip) ==
  SumOfSet({k \in Keys : Includes(sel, k) /\ k # skip},
           [k \in Keys |-> parseAreaToWah(AreaOf(a, k))])

PopupHolds(total, agri, resid) ==
  /\ PopupOpen
  /\ popupInfo.totalArea = JStr(total)
  /\ selected = <<"agriculture", "residential">>
  /\ areas = Alloc(agri, resid).areas

\* C4: while the popup is open usedWah is the sum of parseAreaToWah over the
\* selected categories' areas, remainWah is totalWah - usedWah and isOverLimit
\* is (totalWah > 0 and usedWah > totalWah); with total "10-0-0", areas
\* 5-0-0 and 3-0-0 give used 3200, remaining 800, not over the limit, and
\* areas 8-0-0 and 3-0-0 give used 4400, over the limit, excess "1-0-0".
C4_AllocationValues ==
  PopupOpen =>
    /\ totalWah = parseAreaToWah(popupInfo.totalArea)
    /\ usedWah = AllocatedWah(selected, areas, "")
    /\ remainWah = totalWah - AllocatedWah(selected, areas, "")
    /\ isOverLimit <=> (totalWah > 0 /\ AllocatedWah(selected, areas, "") > totalWah)
    /\ PopupHolds(Text_10_0_0, Text_5_0_0, Text_3_0_0) =>
         usedWah = 3200 * Scale /\ remainWah = 800 * Scale /\ ~isOverLimit
    /\ PopupHolds(Text_10_0_0, Text_8_0_0, Text_3_0_0) =>
         usedWah = 4400 * Scale /\ isOverLimit /\ excessText = Text_1_0_0

C4_Witness ==
  /\ PopupHolds(Text_10_0_0, Text_8_0_0, Text_3_0_0)
  /\ lastOp.op = "handleChange"
  /\ isOverLimit

\* What autoFillRemain(key) is to leave in areas.
FilledAreas(key) ==
  LET remaining == totalWah - AllocatedWah(selected, areas, key)
  IN IF remaining > 0
       THEN [k \in DOMAIN areas \cup {key} |->
               IF k = key THEN wahToAreaStr(JNum(remaining)) ELSE areas[k]]
     ELSE areas

\* C5: autoFillRemain(key) sets the key's area to wahToAreaStr of totalWah
\* minus the other selected categories' areas when that is > 0 and leaves
\* every other area as it was; when it is not > 0 areas is left as it is.
C5_AutoFillSetsRemainder ==
  /\ [](PopupOpen => \A key \in Keys : autoFillAreas(key) = FilledAreas(key))
  /\ [][(lastOp'.op = "autoFillRemain" /\ steps' # steps) =>
          /\ areas' = FilledAreas(lastOp'.key)
          /\ selected' = selected /\ popupInfo' = popupInfo]_vars

Text_7_0_0 == <<"7", "-", "0", "-", "0">>
Text_2_0_0 == <<"2", "-", "0", "-", "0">>
Text_0_2_0 == <<"0", "-", "2", "-", "0">>

C5_Witness ==
  /\ PopupOpen
  /\ lastOp = [op |-> "autoFillRemain", key |-> "agriculture"]
  /\ popupInfo.totalArea = JStr(Text_10_0_0)
  /\ selected = <<"agriculture", "residential">>
  /\ areas = Alloc(Text_7_0_0, Text_3_0_0).areas

AutoFilledWithOthersAt3200 ==
  /\ lastOp.op = "autoFillRemain"
  /\ popupInfo.totalArea = JStr(Text_10_0_0)
  /\ AllocatedWah(selected, areas, lastOp.key) = 3200 * Scale

\* C6 as stated: with total "10-0-0" and the other selected categories using
\* 3200 wah, autoFillRemain sets the target's area to "0-2-0".
C6_AsStated ==
  AutoFilledWithOthersAt3200 => areas[lastOp.key] = Text_0_2_0

\* C6 amended: with total "10-0-0" and the other selected categories using
\* 3200 wah, the 800 wah that remain are 2 rai and autoFillRemain sets the
\* target's area to "2-0-0".
C6_AutoFillExample ==
  AutoFilledWithOthersAt3200 =>
    /\ parseAreaToWah(AreaOf(areas, lastOp.key)) = 800 * Scale
    /\ areas[lastOp.key] = Text_2_0_0
    /\ remainWah = 0

C6_Witness ==
  /\ AutoFilledWithOthersAt3200
  /\ lastOp.key = "residential"
  /\ selected = <<"agriculture", "residential">>
  /\ areas = Alloc(Text_8_0_0, Text_2_0_0).areas

\* ------------------------------------------------- allocation (stored)

\* The scalar wah a stored allocation gives its categories.
StoredWah(lu) == AllocatedWah(normalizeLUFull(lu).types, normalizeLUFull(lu).areas, "")

\* Every parcel on the map whose recorded area is > 0 has a stored allocation
\* within that area.
WithinRecordedArea(assignments) ==
  \A l \in 1..Len(geojsonLayers) : \A f \in 1..Len(geojsonLayers[l].features) :
    LET props == geojsonLayers[l].features[f]
        total == parseAreaToWah(getParcelArea(props))
    IN total > 0 => StoredWah(Get(assignments, getParcelCode(props))) <= total

\* C7: after any sequence of popup saves, clears, bulk assignments and parcel
\* attribute edits, every parcel whose recorded area is > 0 has a stored
\* allocation whose areas sum to at most that area.
C7_AllocationBound ==
  WithinRecordedArea(landUseAssignments) /\ WithinRecordedArea(serverAssignments)

\* C8: the save button is disabled exactly when totalWah > 0 and usedWah >
\* totalWah, and handleSave never runs from such a state: every handleSave
\* step starts in an open popup that is not over the limit.
C8_SaveEnabledIffWithinLimit ==
  /\ [](PopupOpen => (SaveDisabled <=> (totalWah > 0 /\ usedWah > totalWah)))
  /\ [][(lastOp'.op = "handleSave" /\ steps' # steps) =>
          /\ PopupOpen
          /\ ~(totalWah > 0 /\ usedWah > totalWah)
          /\ lastOp'.parcelCode = popupInfo.parcelCode]_vars

C8_Witness ==
  /\ PopupOpen
  /\ lastOp.op = "handleChange"
  /\ totalWah > 0 /\ usedWah > totalWah
  /\ SaveDisabled
  /\ CanSend /\ steps < MaxSteps

\* C9: assigning an empty category set (handleClear, or handleSave with no
\* category selected) leaves landUseAssignments without the parcel's entry
\* and every other entry as it was, and posts landUse ''; the handler of such
\* a POST leaves the stored assignments without the parcel's entry and every
\* other entry as it was.
C9_EmptySetDeletes ==
  /\ [][(/\ steps' # steps
         /\ \/ lastOp'.op = "handleClear"
            \/ lastOp'.op = "handleSave" /\ selected = <<>>) =>
          LET code == popupInfo.parcelCode
          IN /\ lastOp'.parcelCode = code
             /\ code \notin DOMAIN landUseAssignments'
             /\ DOMAIN landUseAssignments' = DOMAIN landUseAssignments \ {code}
             /\ \A c \in DOMAIN landUseAssignments' :
                  landUseAssignments'[c] = landUseAssignments[c]
             /\ net' = Append(net, Request("land-use", "POST",
                          [parcelCode |-> code, landUse |-> JStr(<<>>)],
                          "assignLandUse"))]_vars
  /\ [][(/\ lastOp'.op = "landUseHandler"
         /\ net' # net
         /\ lastOp'.method = "POST"
         /\ lastOp'.body.landUse = JStr(<<>>)) =>
          LET code == lastOp'.body.parcelCode
          IN /\ code \notin DOMAIN serverAssignments'
             /\ DOMAIN serverAssignments' = DOMAIN serverAssignments \ {code}
             /\ \A c \in DOMAIN serverAssignments' :
                  serverAssignments'[c] = serverAssignments[c]]_vars

C9_Witness ==
  /\ lastOp.op = "landUseHandler"
  /\ lastOp.method = "POST"
  /\ lastOp.body = [parcelCode |-> "p1", landUse |-> JStr(<<>>)]
  /\ DOMAIN landUseAssignments = {"p2"}
  /\ DOMAIN serverAssignments = {"p2"}
  /\ serverAssignments["p2"] = JObj(<<"commercial">>, EmptyMap)

\* C10: toggle on a selected key takes the key out of selected, keeping the
\* order of the rest, and takes its entry out of areas, keeping the other
\* entries, so usedWah goes down by the entry's wah; toggle on a key that is
\* not selected appends it and leaves it without an entry in areas.
C10_DeselectRemovesArea ==
  /\ [][(lastOp'.op = "toggle" /\ steps' # steps) =>
          LET key == lastOp'.key
          IN IF Includes(selected, key)
               THEN /\ selected' = SelectSeq(selected, LAMBDA k : k # key)
                    /\ DOMAIN areas' = DOMAIN areas \ {key}
                    /\ \A k \in DOMAIN areas' : areas'[k] = areas[k]
             ELSE /\ selected' = Append(selected, key)
                  /\ key \notin DOMAIN areas'
                  /\ areas' = areas]_vars
  /\ []((lastOp.op = "toggle" /\ ~Includes(selected, lastOp.key)) =>
          /\ lastOp.key \notin DOMAIN areas
          /\ usedWah = AllocatedWah(selected, areas, lastOp.key))

C10_Witness ==
  /\ PopupOpen
  /\ lastOp = [op |-> "toggle", key |-> "agriculture"]
  /\ popupInfo.currentTypes = <<"agriculture", "residential">>
  /\ selected = <<"residential">>
  /\ areas = [k \in {"residential"} |-> Text_3_0_0]

\* ------------------------------------------------- the helpers' contracts

Text_0_0_0 == <<"0", "-", "0", "-", "0">>

\* The text normalizeAreaStr is to build from a string.
NormalText(s) ==
  LET r == ComponentValue(s, 1)
      n == ComponentValue(s, 2)
      w == ComponentValue(s, 3)
  IN IF r = 0 /\ n = 0 /\ w = 0 THEN <<>>
     ELSE NumToStr(r) \o <<"-">> \o NumToStr(n) \o <<"-">> \o NumToStr(w)

\* C11: for every string input normalizeAreaStr returns '' when the first
\* three components' numeric values (absent or invalid counting 0) are all 0
\* and "{r}-{n}-{w}" of those values otherwise, without leading zeros;
\* "0-0-0" and "" give "", "1-0-0" gives "1-0-0".
C11_NormalizeForStorage ==
  (lastOp.op = "normalizeAreaStr" /\ arg.t = "string") =>
    /\ ret = JStr(NormalText(arg.s))
    /\ ret.s # <<>> =>
         /\ Len(Split(ret.s)) = 3
         /\ \A i \in 1..3 : ~LeadingZero(Split(ret.s)[i])
    /\ arg.s \in {Text_0_0_0, <<>>} => ret = JStr(<<>>)
    /\ arg.s = Text_1_0_0 => ret = JStr(Text_1_0_0)

C11_Witness ==
  /\ lastOp.op = "normalizeAreaStr"
  /\ arg = JStr(<<"0", "0", "7", "-", "a", "-", ".", "5">>)
  /\ ret = JStr(<<"7", "-", "0", "-", "0", ".", "5">>)

\* A number as a template literal prints it.
IsNumeral(c) == c # <<>> /\ ParsesAsNumber(c) /\ NumToStr(ParseFloatOr0(c)) = c

\* Exactly three numerals, not all of them zero.
CleanTriple(text) ==
  LET parts == Split(text)
  IN /\ Len(parts) = 3
     /\ \A i \in 1..3 : IsNumeral(parts[i])
     /\ \E i \in 1..3 : ParseFloatOr0(parts[i]) # 0

CleanAreasOf(lu) ==
  \A k \in DOMAIN normalizeLUFull(lu).areas : CleanTriple(normalizeLUFull(lu).areas[k])

\* C12: every area handleSave hands to assignLandUse is a text of exactly
\* three numerals that are not all zero, namely the normalized text of the
\* category's typed area, and a category whose typed area normalizes to ''
\* gets no entry; so every area in landUseAssignments, in a request and in the
\* server's store is such a triple.
C12_SavedAreasAreCleanTriples ==
  /\ [][(lastOp'.op = "handleSave" /\ steps' # steps /\ selected # <<>>) =>
          LET handed == net'[Len(net')].body.landUse
          IN /\ handed.types = selected
             /\ DOMAIN handed.areas = {k \in DOMAIN areas : NormalText(areas[k]) # <<>>}
             /\ \A k \in DOMAIN handed.areas :
                  /\ handed.areas[k] = NormalText(areas[k])
                  /\ CleanTriple(handed.areas[k])
             /\ landUseAssignments'[lastOp'.parcelCode] = handed]_vars
  /\ [](/\ \A c \in DOMAIN landUseAssignments : CleanAreasOf(landUseAssignments[c])
        /\ \A c \in DOMAIN serverAssignments : CleanAreasOf(serverAssignments[c])
        /\ \A i \in 1..Len(net) :
             (net[i].api = "land-use" /\ net[i].method = "POST") =>
               CleanAreasOf(net[i].body.landUse))

C12_Witness ==
  /\ lastOp = [op |-> "handleSave", parcelCode |-> "p1"]
  /\ selected = <<"agriculture", "residential">>
  /\ areas = [k \in {"agriculture", "residential"} |->
                IF k = "agriculture" THEN <<"0", "-", "0", "-", "0">>
                ELSE <<"3", "-", "0", "-", "0", ".", "5", "0">>]
  /\ landUseAssignments["p1"] =
       JObj(<<"agriculture", "residential">>,
            [k \in {"residential"} |-> <<"3", "-", "0", "-", "0", ".", "5">>])

\* The outcome of a helper call is a value, not an exception.
Returned == ret # JThrow

\* C13: parseAreaToWah, wahToAreaStr, parseAreaParts, partsToStr and
\* normalizeAreaStr never throw: for every input, null, undefined, a number
\* and malformed strings included, the call returns, and what it returns for
\* null, undefined and non-string input is the default (0, "0-0-0", all-empty
\* parts, '').
C13_HelpersAreTotal ==
  lastOp.op \in {"parseAreaToWah", "wahToAreaStr", "parseAreaParts", "partsToStr",
                 "normalizeAreaStr"} =>
    /\ Returned
    /\ (lastOp.op = "normalizeAreaStr" /\ arg.t # "string") => ret = JStr(<<>>)
    /\ (lastOp.op = "parseAreaToWah" /\ arg.t # "string") => ret = JNum(0)
    /\ (lastOp.op = "parseAreaParts" /\ arg.t # "string") =>
         ret = JParts(<<>>, <<>>, <<>>)

\* C14: parseAreaToWah returns 0 for null, for every non-string input, for ''
\* and for a string whose components are all unparseable ("abc-def-ghi").
C14_ParseDefaultsToZero ==
  (/\ lastOp.op = "parseAreaToWah"
   /\ \/ arg.t # "string"
      \/ arg.s = <<>>
      \/ \A i \in 1..Len(Split(arg.s)) : ~ParsesAsNumber(Split(arg.s)[i])) =>
    ret = JNum(0)

C14_Witness ==
  /\ lastOp.op = "parseAreaToWah"
  /\ arg = JStr(<<"a", "b", "c", "-", "d", "e", "f", "-", "g", "h", "i">>)
  /\ ret = JNum(0)

\* C15: wahToAreaStr returns "0-0-0" for every input that is <= 0 or falsy
\* (0, negative numbers, null, undefined, NaN).
C15_ZeroForm ==
  (/\ lastOp.op = "wahToAreaStr"
   /\ \/ arg.t \in {"null", "undefined", "NaN"}
      \/ arg.t = "number" /\ arg.n <= 0) =>
    ret = JStr(Text_0_0_0)

C15_Witness ==
  /\ lastOp.op = "wahToAreaStr"
  /\ arg = JNum(0 - 5 * Scale)
  /\ ret = JStr(Text_0_0_0)

RECURSIVE DashCount(_)
DashCount(s) ==
  IF s = <<>> THEN 0 ELSE (IF s[1] = "-" THEN 1 ELSE 0) + DashCount(Tail(s))

\* The position of the n-th '-' of s; 0 for n = 0, Len(s) + 1 when there are
\* fewer than n.
NthDash(s, n) ==
  IF n = 0 THEN 0
  ELSE IF DashCount(s) < n THEN Len(s) + 1
  ELSE CHOOSE p \in 1..Len(s) : s[p] = "-" /\ DashCount(SubSeq(s, 1, p)) = n

\* The i-th '-'-separated segment of s, '' when s has fewer than i segments.
Segment(s, i) ==
  IF DashCount(s) < i - 1 THEN <<>>
  ELSE SubSeq(s, NthDash(s, i - 1) + 1, NthDash(s, i) - 1)

\* C16: for every string input each part of parseAreaParts is the
\* corresponding '-'-separated segment verbatim ("0" for the segment "0") and
\* '' when the segment is absent; null, '' and non-string input give three
\* empty parts; "12-0-" gives rai "12", ngan "0", wah "".
C16_SplitToParts ==
  lastOp.op = "parseAreaParts" =>
    /\ arg.t = "string" =>
         ret = JParts(Segment(arg.s, 1), Segment(arg.s, 2), Segment(arg.s, 3))
    /\ (arg.t # "string" \/ arg.s = <<>>) => ret = JParts(<<>>, <<>>, <<>>)
    /\ arg = JStr(<<"1", "2", "-", "0", "-">>) =>
         ret = JParts(<<"1", "2">>, <<"0">>, <<>>)

C16_Witness ==
  /\ lastOp.op = "parseAreaParts"
  /\ arg = JStr(<<"1", "2", "-", "0", "-">>)
  /\ ret = JParts(<<"1", "2">>, <<"0">>, <<>>)

\* C17: partsToStr(rai, ngan, wah) is rai, '-', ngan, '-', wah with empty
\* parts as empty segments, and for parts without '-' parseAreaParts of the
\* result gives back exactly rai, ngan and wah; ("12", "0", "") gives "12-0-".
C17_JoinSplitRoundTrip ==
  lastOp.op = "partsToStr" =>
    /\ ret.t = "string"
    /\ Len(ret.s) = Len(arg.rai) + Len(arg.ngan) + Len(arg.wah) + 2
    /\ SubSeq(ret.s, 1, Len(arg.rai)) = arg.rai
    /\ ret.s[Len(arg.rai) + 1] = "-"
    /\ SubSeq(ret.s, Len(arg.rai) + 2, Len(arg.rai) + 1 + Len(arg.ngan)) = arg.ngan
    /\ ret.s[Len(arg.rai) + Len(arg.ngan) + 2] = "-"
    /\ SubSeq(ret.s, Len(arg.rai) + Len(arg.ngan) + 3, Len(ret.s)) = arg.wah
    /\ (DashCount(arg.rai \o arg.ngan \o arg.wah) = 0) =>
         parseAreaParts(ret) = [rai |-> arg.rai, ngan |-> arg.ngan, wah |-> arg.wah]
    /\ arg = JParts(<<"1", "2">>, <<"0">>, <<>>) => ret = JStr(<<"1", "2", "-", "0", "-">>)

C17_Witness ==
  /\ lastOp.op = "partsToStr"
  /\ arg = JParts(<<"1", "2">>, <<"0">>, <<>>)
  /\ ret = JStr(<<"1", "2", "-", "0", "-">>)
  /\ parseAreaParts(ret) = [rai |-> <<"1", "2">>, ngan |-> <<"0">>, wah |-> <<>>]

\* C18: with totalWah = 0 the Auto button is drawn for no category, and with
\* totalWah > 0 it is drawn for a selected category exactly when totalWah
\* minus the other selected categories' areas is > 0; every autoFillRemain
\* step starts where the button is drawn.
C18_AutoFillOffered ==
  /\ [](PopupOpen => \A key \in Keys :
          /\ totalWah <= 0 => ~AutoOffered(key)
          /\ ~Includes(selected, key) => ~AutoOffered(key)
          /\ (totalWah > 0 /\ Includes(selected, key)) =>
               (AutoOffered(key) <=> totalWah - AllocatedWah(selected, areas, key) > 0))
  /\ [][(lastOp'.op = "autoFillRemain" /\ steps' # steps) =>
          /\ totalWah > 0
          /\ Includes(selected, lastOp'.key)
          /\ totalWah - AllocatedWah(selected, areas, lastOp'.key) > 0]_vars

C18_Witness ==
  /\ PopupOpen
  /\ popupInfo.totalArea = JNum(5 * Scale)
  /\ totalWah = 0
  /\ selected = <<"agriculture", "residential">>
  /\ \A key \in Keys : ~AutoOffered(key)

\* ------------------------------------------------- bulk assignment

\* Every code of codes maps to { types: [typeKey], areas: {} } in after, and
\* every other code maps to what it mapped to in before.
Overwritten(before, after, codes, typeKey) ==
  /\ DOMAIN after = DOMAIN before \cup codes
  /\ \A c \in codes : after[c] = JObj(<<typeKey>>, EmptyMap)
  /\ \A c \in DOMAIN before \ codes : after[c] = before[c]

\* C19: a bulk assignment (handleBulk, a re-type button) gives every target
\* parcel exactly { types: [typeKey], areas: {} } in landUseAssignments,
\* whatever it held and whatever the parcel's area, leaves all other parcels'
\* entries as they were and sends the targets' entries by PUT; the PUT handler
\* does the same to the server's store.
C19_BulkOverwrites ==
  /\ [][(lastOp'.op \in {"handleBulk", "handleRetype"} /\ steps' # steps) =>
          /\ lastOp'.codes # {}
          /\ Overwritten(landUseAssignments, landUseAssignments',
                         lastOp'.codes, lastOp'.typeKey)
          /\ net' = Append(net, Request("land-use", "PUT",
                       [assignments |-> [c \in lastOp'.codes |->
                                           JObj(<<lastOp'.typeKey>>, EmptyMap)]],
                       "bulkAssignLandUse"))]_vars
  /\ [][(lastOp'.op = "landUseHandler" /\ net' # net /\ lastOp'.method = "PUT") =>
          LET sent == lastOp'.body.assignments
          IN \E typeKey \in Keys :
               /\ \A c \in DOMAIN sent : sent[c] = JObj(<<typeKey>>, EmptyMap)
               /\ Overwritten(serverAssignments, serverAssignments',
                              DOMAIN sent, typeKey)]_vars

C19_Witness ==
  /\ lastOp.op = "landUseHandler"
  /\ lastOp.method = "PUT"
  /\ DOMAIN lastOp.body.assignments = {"p1"}
  /\ serverAssignments =
       [c \in {"p1", "p2"} |->
          IF c = "p1" THEN JObj(<<"residential">>, EmptyMap)
          ELSE JObj(<<"commercial">>, EmptyMap)]
  /\ landUseAssignments = serverAssignments

\* ------------------------------------------------- deleted features

CodesIn(features) == {getParcelCode(features[f]) : f \in 1..Len(features)}

\* C20: once the server has stored a layer's file without a deleted feature,
\* no later file of that layer holds the feature again, a debounced save that
\* was pending when the feature was deleted included.
C20_DeletedStaysDeleted ==
  \A name \in DOMAIN serverFiles : CodesIn(serverFiles[name]) \cap gone = {}

\* ---------------------------------------------------- C21

\* No land-use request is still on its way to the server.
LandUseHandled ==
  \A i \in 1..Len(net) : net[i].api = "land-use" => net[i].state = "done"

\* C21 as stated: once every land-use request has been handled, the server's
\* stored assignments equal the client's landUseAssignments, whatever the
\* order in which the requests reached the server.
C21_ClientServerAgree ==
  LandUseHandled => serverAssignments = landUseAssignments

\* ---------------------------------------------------- C22

\* The attribute tables of two saved layers: the page after its first loads
\* with two files on the server.
ZonesFile == "zones.geojson"

ZoneFeatures == << [parcel_cod |-> "p3", Area |-> JStr(Text_3_0_0)] >>

InitTable ==
  /\ arg = JNull
  /\ ret = NoRet
  /\ lastOp = [op |-> "init"]
  /\ surveyMode = FALSE
  /\ geojsonLayers =
       << [id |-> "L1", name |-> FileName,
           features |-> Features(JStr(Text_10_0_0), JStr(Text_1_0_0))],
          [id |-> "L2", name |-> ZonesFile, features |-> ZoneFeatures] >>
  /\ tableLayerId = "null"
  /\ rendered = Snapshot(EmptyMap, geojsonLayers)
  /\ landUseAssignments = EmptyMap
  /\ popupInfo = JNull
  /\ selected = <<>>
  /\ areas = EmptyMap
  /\ bulkBusy = FALSE
  /\ savePropTimer = JNull
  /\ net = <<>>
  /\ serverAssignments = EmptyMap
  /\ serverFiles =
       [n \in {FileName, ZonesFile} |->
          IF n = FileName THEN Features(JStr(Text_10_0_0), JStr(Text_1_0_0))
          ELSE ZoneFeatures]
  /\ gone = {}
  /\ showPanel = TRUE
  /\ NotEditing
  /\ steps = 0

\* The server takes the requests in the order the page sent them.
geojsonHandlerInOrder(i) ==
  /\ i \in 1..Len(net)
  /\ \A j \in 1..(i - 1) : net[j].state = "done"
  /\ geojsonHandler(i)

NextTable ==
  \/ \E id \in {"L1", "L2"} : toggleTable(id)
  \/ \E f \in EditedRows, v \in TypedCells : updateFeatureProperty(f, v)
  \/ SaveTimerFires
  \/ \E i \in 1..MaxInFlight : geojsonHandlerInOrder(i)
  \/ \E i \in 1..MaxInFlight : SaveDone(i)

\* Timers fire, the server answers every request, every answer is taken.
SpecTable ==
  /\ InitTable
  /\ [][NextTable]_vars
  /\ WF_vars(SaveTimerFires)
  /\ WF_vars(\E i \in 1..MaxInFlight : geojsonHandlerInOrder(i))
  /\ WF_vars(\E i \in 1..MaxInFlight : SaveDone(i))

\* The server's file of layer l holds the features the page shows.
Persisted(l) == serverFiles[geojsonLayers[l].name] = geojsonLayers[l].features

\* C22 as stated: every attribute edit committed through updateFeatureProperty
\* is eventually persisted: whenever a layer's file on the server lacks an
\* edit, the file later holds the layer's features, for any further edits and
\* switches of the table's layer.
C22_EditsEventuallyPersisted ==
  \A l \in 1..2 : [](~Persisted(l) => <>Persisted(l))

\* ---------------------------------------------- Number (IEEE 754 binary64)

\* The numbers of the popup's sums as the engine holds them: binary
\* floating-point numbers of 53 significant bits, every operation rounding
\* its exact result to the nearest such number, ties to the even one.  A value
\* here is not negative and is written in units of 2^-(FracLimbs * LimbBits)
\* as Limbs digits of LimbBits bits each, lowest first.
Precision == 53
LimbBits == 14
FracLimbs == 5
Limbs == 7

Base == 2 ^ LimbBits
FracBits == FracLimbs * LimbBits

B64Zero == [i \in 1..Limbs |-> 0]

\* The number whose only set bit is bit p (of value 2^(p - 1 - FracBits)).
B64Bit(p) ==
  [i \in 1..Limbs |-> IF i = ((p - 1) \div LimbBits) + 1 THEN 2 ^ ((p - 1) % LimbBits) ELSE 0]

BitAt(a, p) == (a[((p - 1) \div LimbBits) + 1] \div (2 ^ ((p - 1) % LimbBits))) % 2

\* The natural number n < Base^2.
B64OfNat(n) ==
  [i \in 1..Limbs |-> IF i = FracLimbs + 1 THEN n % Base
                      ELSE IF i = FracLimbs + 2 THEN n \div Base
                      ELSE 0]

RECURSIVE AddFrom(_, _, _, _)
AddFrom(a, b, i, carry) ==
  IF i > Limbs THEN <<>>
  ELSE LET s == a[i] + b[i] + carry
       IN <<s % Base>> \o AddFrom(a, b, i + 1, s \div Base)

\* a + b, exactly.
ExactAdd(a, b) == AddFrom(a, b, 1, 0)

RECURSIVE SubFrom(_, _, _, _)
SubFrom(a, b, i, borrow) ==
  IF i > Limbs THEN <<>>
  ELSE LET d == Base + a[i] - b[i] - borrow
       IN <<d % Base>> \o SubFrom(a, b, i + 1, IF d < Base THEN 1 ELSE 0)

\* a - b, exactly, for a >= b.
ExactSub(a, b) == SubFrom(a, b, 1, 0)

RECURSIVE LessFrom(_, _, _)
LessFrom(a, b, i) ==
  IF i = 0 THEN FALSE
  ELSE IF a[i] # b[i] THEN a[i] < b[i]
  ELSE LessFrom(a, b, i - 1)

\* a < b
B64Less(a, b) == LessFrom(a, b, Limbs)

\* The position of the highest set bit, 0 for zero.
Msb(a) ==
  IF \A i \in 1..Limbs : a[i] = 0 THEN 0
  ELSE LET top == CHOOSE i \in 1..Limbs : a[i] # 0 /\ \A j \in (i + 1)..Limbs : a[j] = 0
           len == CHOOSE k \in 1..LimbBits : 2 ^ (k - 1) <= a[top] /\ a[top] < 2 ^ k
       IN (top - 1) * LimbBits + len

\* The nearest number of Precision significant bits to a (plus something
\* below its lowest bit when inexact), ties to even.
RoundToNearest(a, inexact) ==
  LET cut == Msb(a) - Precision
  IN IF cut <= 0 THEN a
     ELSE LET kept == [i \in 1..Limbs |->
                         LET low == (i - 1) * LimbBits
                         IN IF low + LimbBits <= cut THEN 0
                            ELSE IF low >= cut THEN a[i]
                            ELSE (a[i] \div (2 ^ (cut - low))) * (2 ^ (cut - low))]
              half == BitAt(a, cut) = 1
              below == inexact \/ \E p \in 1..(cut - 1) : BitAt(a, p) = 1
              odd == BitAt(a, cut + 1) = 1
          IN IF half /\ (below \/ odd) THEN ExactAdd(kept, B64Bit(cut + 1)) ELSE kept

\* a + b and, for a >= b, a - b.
B64Add(a, b) == RoundToNearest(ExactAdd(a, b), FALSE)
B64Sub(a, b) == RoundToNearest(ExactSub(a, b), FALSE)

RECURSIVE TimesFrom(_, _, _, _)
TimesFrom(a, n, i, carry) ==
  IF i > Limbs THEN <<>>
  ELSE LET p == a[i] * n + carry
       IN <<p % Base>> \o TimesFrom(a, n, i + 1, p \div Base)

\* a * n for a natural number n.
B64Times(a, n) == RoundToNearest(TimesFrom(a, n, 1, 0), FALSE)

RECURSIVE QuotFrom(_, _, _, _)
\* The digits i..1 of a divided by n, rem being what the higher digits left.
QuotFrom(a, n, i, rem) ==
  IF i = 0 THEN <<>>
  ELSE LET r == rem * Base + a[i]
       IN QuotFrom(a, n, i - 1, r % n) \o <<r \div n>>

RECURSIVE RemFrom(_, _, _, _)
RemFrom(a, n, i, rem) ==
  IF i = 0 THEN rem ELSE RemFrom(a, n, i - 1, (rem * Base + a[i]) % n)

\* a / n for a natural number n > 0.  (An inexact quotient of fewer than
\* Precision bits above 2^-FracBits is cut, not rounded: such a quotient is
\* only ever floored.)
B64Over(a, n) ==
  RoundToNearest(QuotFrom(a, n, Limbs, 0), RemFrom(a, n, Limbs, 0) # 0)

\* Math.floor(a), as a natural number.
B64Floor(a) == a[FracLimbs + 1] + Base * a[FracLimbs + 2]

\* Math.round(a): floor(a + 0.5), the sum taken exactly.
B64Round(a) == B64Floor(ExactAdd(a, B64Bit(FracBits)))

\* `parseFloat(s) || 0` of a component of at most two fractional digits (the
\* wah field keeps two): the number nearest to the decimal.
ParseFloat64(s) ==
  IF ~ParsesAsNumber(s) THEN B64Zero
  ELSE LET p == NumPrefix(s)
           tenths == IF Len(p.fp) >= 1 THEN DigitVal(p.fp[1]) ELSE 0
           hundredths == IF Len(p.fp) >= 2 THEN DigitVal(p.fp[2]) ELSE 0
       IN B64Over(B64OfNat(IntOfDigits(p.ip) * 100 + tenths * 10 + hundredths), 100)

PartNum64(parts, i) == IF i <= Len(parts) THEN ParseFloat64(parts[i]) ELSE B64Zero

parseAreaToWah64(str) ==
  IF ~Truthy(str) \/ str.t # "string" THEN B64Zero
  ELSE LET parts == Split(str.s)
           rai == PartNum64(parts, 1)
           ngan == PartNum64(parts, 2)
           wah == PartNum64(parts, 3)
       IN B64Add(B64Add(B64Times(rai, 400), B64Times(ngan, 100)), wah)

\* wahToAreaStr of a number above 0.  wah is Math.round(..) / 100, the number
\* nearest to a decimal of two digits, which the template literal prints as
\* that decimal.
wahToAreaStr64(total) ==
  LET rai == B64Floor(B64Over(total, 400))
      remain == B64Sub(total, B64Times(B64OfNat(rai), 400))
      ngan == B64Floor(B64Over(remain, 100))
      wah == B64Round(B64Times(B64Sub(remain, B64Times(B64OfNat(ngan), 100)), 100))
  IN NumToStr(rai * Scale) \o <<"-">> \o NumToStr(ngan * Scale)
       \o <<"-">> \o NumToStr(wah * (Scale \div 100))

RECURSIVE SumAreas64(_, _, _, _)
\* selected.reduce((sum, k) => k === skip ? sum : sum + parseAreaToWah(a[k]), sum)
SumAreas64(sel, a, skip, sum) ==
  IF sel = <<>> THEN sum
  ELSE SumAreas64(Tail(sel), a, skip,
                  IF sel[1] = skip THEN sum
                  ELSE B64Add(sum, parseAreaToWah64(AreaOf(a, sel[1]))))

totalWah64 == parseAreaToWah64(popupInfo.totalArea)

usedWah64 == SumAreas64(selected, areas, "", B64Zero)

isOverLimit64 == B64Less(B64Zero, totalWah64) /\ B64Less(totalWah64, usedWah64)

\* -------------------------------------------- the popup's sums, as computed

\* otherUsed of a row and of autoFillRemain: the sum over the selected
\* categories other than key, taken from the left.
otherUsed64(key) == SumAreas64(selected, areas, key, B64Zero)

\* The Auto button of a selected category's row: onAutoFill is given when
\* totalWah > 0, and the row's remainWah, totalWah - otherUsed, is > 0.
AutoOffered64(key) ==
  /\ PopupOpen
  /\ Includes(selected, key)
  /\ B64Less(B64Zero, totalWah64)
  /\ B64Less(otherUsed64(key), totalWah64)

\* autoFillRemain(key), reached by the Auto button.
autoFillRemain64(key) ==
  /\ AutoOffered64(key)
  /\ areas' = Put(areas, key, wahToAreaStr64(B64Sub(totalWah64, otherUsed64(key))))
  /\ lastOp' = [op |-> "autoFillRemain", key |-> key]
  /\ UserStep
  /\ UNCHANGED <<pureVars, editVars, surveyMode, layerVars, rendered, landUseAssignments,
                 popupInfo, selected, bulkBusy, net, serverVars>>

\* Parcel areas of two decimals of wah at most.
TotalTexts ==
  { <<"0", "-", "0", "-", "0", ".", "3">>,
    <<"0", "-", "0", "-", "0", ".", "8">>,
    <<"0", "-", "0", "-", "0", ".", "0", "6">>,
    <<"0", "-", "0", "-", "0", ".", "5">>,
    <<"1", "-", "2", "-", "4", "1", ".", "2", "5">>,
    Text_10_0_0 }

\* What the user types into a wah field.
TypedWah ==
  { <<"0", ".", "1">>, <<"0", ".", "0", "1">>, <<"0", ".", "7">>, <<"4", "1">> }

\* The page with one parcel of each area, its stored assignment naming two
\* categories without areas.
InitFloat ==
  \E t \in TotalTexts :
    Loaded(Features(JStr(t), JStr(Text_1_0_0)),
           [c \in {"p1"} |-> JObj(<<"residential", "agriculture">>, EmptyMap)])

NextFloat ==
  \/ setSurveyMode
  \/ onFeatureClick(1, 1)
  \/ \E k \in SurveyKeys, raw \in TypedWah : handleChange(k, "wah", raw)
  \/ \E k \in SurveyKeys : autoFillRemain64(k)

SpecFloat == InitFloat /\ [][NextFloat]_vars

\* ---------------------------------------------------- C23

\* C23 as stated: after autoFillRemain(key) has run for a selected category
\* with a remainder > 0, all areas having two decimals of wah at most, the
\* allocation is exactly full: the used sum equals the total (the remainder
\* is 0) and isOverLimit is false.
C23_AutoFillUsesWholeArea ==
  lastOp.op = "autoFillRemain" =>
    /\ usedWah64 = totalWah64
    /\ ~isOverLimit64

\* ---------------------------------------------------- C24

NoDuplicates(seq) == \A i, j \in 1..Len(seq) : seq[i] = seq[j] => i = j

SetOf(seq) == {seq[i] : i \in 1..Len(seq)}

\* The allocations assignLandUse was handed by the popup and has posted.
PostedAllocations ==
  {net[i].body.landUse : i \in {j \in 1..Len(net) :
      /\ net[j].then = "assignLandUse"
      /\ net[j].body.landUse.t = "object"}}

\* C24: from stored allocations whose areas keys are among their types and
\* whose types hold no duplicate, every sequence of toggle, setPrimary, area
\* edits and auto-fill keeps selected free of duplicates and every key of
\* areas selected; hence the allocation handleSave hands on has area entries
\* only for categories in its types.
C24_AreasKeysAreSelected ==
  /\ NoDuplicates(selected)
  /\ DOMAIN areas \subseteq SetOf(selected)
  /\ DOMAIN cleanAreas \subseteq SetOf(selected)
  /\ \A lu \in PostedAllocations :
       NoDuplicates(lu.types) /\ DOMAIN lu.areas \subseteq SetOf(lu.types)

C24_Witness ==
  /\ lastOp.op = "handleSave"
  /\ popupInfo.currentTypes = <<"agriculture", "residential">>
  /\ DOMAIN popupInfo.currentAreas = {"agriculture", "residential"}
  /\ selected = <<"agriculture">>
  /\ net[Len(net)].body.landUse =
       JObj(<<"agriculture">>, [k \in {"agriculture"} |-> Text_5_0_0])

\* ---------------------------------------------------- C25

\* C25 as stated: for every total > 0 wahToAreaStr returns "r-n-w" with r a
\* non-negative integer, n in {0, 1, 2, 3} and 0 <= w < 100 such that
\* r*400 + n*100 + w is the total rounded to two decimals: wah never reaches
\* 100 and ngan never reaches 4.
C25_TextIsCanonical ==
  (lastOp.op = "wahToAreaStr" /\ arg.t = "number" /\ arg.n > 0) =>
    /\ Len(Split(ret.s)) = 3
    /\ ComponentValue(ret.s, 1) >= 0
    /\ ComponentValue(ret.s, 1) % Scale = 0
    /\ ComponentValue(ret.s, 2) \in {n * Scale : n \in 0..3}
    /\ ComponentValue(ret.s, 3) >= 0
    /\ ComponentValue(ret.s, 3) < 100 * Scale
    /\ WeightedSum(ret.s) = Round2(arg.n)

\* ------------------------------------- the area helpers on very small numbers

\* The helpers again, on numbers in units of 10^-d: with d above 6 a number
\* below 10^-6 exists, which a template literal prints in exponent form.
\* The texts read here hold no exponent that parseFloat would apply (an 'e'
\* is never followed by a digit within a component), and every value stays
\* far below 10^21.

FracOfDigitsAt(ds, d) ==
  LET padded == [i \in 1..d |-> IF i <= Len(ds) THEN ds[i] ELSE "0"]
  IN IntOfDigits(padded)

ParseFloatOr0At(s, d) ==
  IF ~ParsesAsNumber(s) THEN 0
  ELSE LET p == NumPrefix(s)
           mag == IntOfDigits(p.ip) * (10 ^ d) + FracOfDigitsAt(p.fp, d)
       IN IF p.neg THEN 0 - mag ELSE mag

\* Number-to-string conversion for n >= 0 in units of 10^-d: below 10^-6 the
\* significant digits, 'e-' and the exponent; otherwise the decimal form.
NumToStrAt(n, d) ==
  IF d > 6 /\ n > 0 /\ n < 10 ^ (d - 6)
  THEN LET all == DigitsOfNat(n)
           sig == StripZeros(all)
           mant == IF Len(sig) = 1 THEN sig ELSE <<sig[1], ".">> \o Tail(sig)
       IN mant \o <<"e", "-">> \o DigitsOfNat(d - Len(all) + 1)
  ELSE LET ip == DigitsOfNat(n \div (10 ^ d))
           f == n % (10 ^ d)
           fd == [i \in 1..d |-> DigitChars[((f \div (10 ^ (d - i))) % 10) + 1]]
       IN IF f = 0 THEN ip ELSE ip \o <<".">> \o StripZeros(fd)

PartNumAt(parts, i, d) ==
  IF i <= Len(parts) THEN ParseFloatOr0At(parts[i], d) ELSE 0

parseAreaToWahAt(str, d) ==
  IF ~Truthy(str) \/ str.t # "string" THEN 0
  ELSE LET parts == Split(str.s)
           rai == PartNumAt(parts, 1, d)
           ngan == PartNumAt(parts, 2, d)
           wah == PartNumAt(parts, 3, d)
       IN rai * 400 + ngan * 100 + wah

normalizeAreaStrAt(str, d) ==
  IF ~Truthy(str) THEN JStr(<<>>)
  ELSE IF str.t # "string" THEN JThrow
  ELSE LET parts == Split(str.s)
           r == PartNumAt(parts, 1, d)
           n == PartNumAt(parts, 2, d)
           w == PartNumAt(parts, 3, d)
       IN IF r = 0 /\ n = 0 /\ w = 0 THEN JStr(<<>>)
          ELSE JStr(NumToStrAt(r, d) \o <<"-">> \o NumToStrAt(n, d)
                      \o <<"-">> \o NumToStrAt(w, d))

\* Wah components: whole numbers, fractions down to 10^-7, noise.
FineWahTexts ==
  { <<>>, <<"0">>, <<"1">>, <<"7">>, <<"1", ".", "5">>, <<"0", "0", ".", "5">>,
    <<"4", "1", "a">>, <<"1", "e">>,
    <<"0", ".", "0", "0", "0", "0", "1">>,
    <<"0", ".", "0", "0", "0", "0", "0", "1">>,
    <<"0", ".", "0", "0", "0", "0", "0", "1", "2">>,
    <<"0", ".", "0", "0", "0", "0", "0", "0", "5">>,
    <<"0", ".", "0", "0", "0", "0", "0", "0", "1">> }

\* Area texts of no rai and no ngan, where every sum the helpers form is
\* exact.
FineArgs ==
  { JStr(r \o <<"-">> \o n \o <<"-">> \o w) :
      r \in {<<>>, <<"0">>}, n \in {<<>>, <<"0">>, <<"0", "0">>}, w \in FineWahTexts }

InitFine ==
  /\ arg \in FineArgs
  /\ ret = NoRet
  /\ lastOp = [op |-> "init"]
  /\ Idle

CallParseAreaToWahFine ==
  /\ lastOp.op = "init"
  /\ ret' = JNum(parseAreaToWahAt(arg, FineDecimals))
  /\ lastOp' = [op |-> "parseAreaToWah"]
  /\ UNCHANGED <<arg, appVars>>

CallNormalizeAreaStrFine ==
  /\ lastOp.op = "init"
  /\ ret' = normalizeAreaStrAt(arg, FineDecimals)
  /\ lastOp' = [op |-> "normalizeAreaStr"]
  /\ UNCHANGED <<arg, appVars>>

NextFine == CallParseAreaToWahFine \/ CallNormalizeAreaStrFine

SpecFine == InitFine /\ [][NextFine]_vars

\* ---------------------------------------------------- C26

\* C26 as stated: for every area text t, the stored form weighs what t weighs,
\* parseAreaToWah(normalizeAreaStr(t)) = parseAreaToWah(t), and storing is
\* idempotent, normalizeAreaStr(normalizeAreaStr(t)) = normalizeAreaStr(t).
C26_NormalizeKeepsScalar ==
  (lastOp.op = "normalizeAreaStr" /\ arg.t = "string") =>
    /\ ret.t = "string"
    /\ parseAreaToWahAt(ret, FineDecimals) = parseAreaToWahAt(arg, FineDecimals)
    /\ normalizeAreaStrAt(ret, FineDecimals) = ret

\* ------------------------------------------------- layer panel and edit mode

\* What the panel's and the edit toolbar's handlers never touch.
surveyVars == <<pureVars, surveyMode, landUseAssignments, bulkBusy, savePropTimer,
                serverAssignments, gone>>

\* The layers button (hidden while a layer is edited).
togglePanel ==
  /\ editingLayerId = "null"
  /\ Len(geojsonLayers) > 0
  /\ showPanel' = ~showPanel
  /\ lastOp' = [op |-> "togglePanel"]
  /\ UserStep
  /\ UNCHANGED <<surveyVars, geojsonLayers, tableLayerId, rendered, popupVars, net,
                 serverFiles, editingLayerId, editFeatureIdx, isDrawing,
                 drawnFeature, editSaving>>

\* The panel's edit button of a layer (disabled while a layer is edited).
startEdit(layerId) ==
  /\ showPanel
  /\ HasLayer(geojsonLayers, layerId)
  /\ editingLayerId = "null"
  /\ editingLayerId' = layerId
  /\ editFeatureIdx' = JNull
  /\ tableLayerId' = "null"
  /\ popupInfo' = JNull
  /\ selected' = <<>>
  /\ areas' = EmptyMap
  /\ lastOp' = [op |-> "startEdit", layerId |-> layerId]
  /\ UserStep
  /\ UNCHANGED <<surveyVars, geojsonLayers, rendered, net, serverFiles, showPanel,
                 isDrawing, drawnFeature, editSaving>>

\* A click on a feature of the edit-select layer, which is on the map while
\* `editingLayerId && editFeatureIdx === null` unless the saving overlay
\* covers the map: onEachFeatureEditSelect's handler and selectFeatureForEdit.
selectFeatureForEdit(featureIdx) ==
  /\ editingLayerId # "null"
  /\ editFeatureIdx = JNull
  /\ ~editSaving
  /\ HasLayer(geojsonLayers, editingLayerId)
  /\ featureIdx \in
       1..Len(geojsonLayers[LayerIdx(geojsonLayers, editingLayerId)].features)
  /\ editFeatureIdx' = JNum(featureIdx)
  /\ lastOp' = [op |-> "selectFeatureForEdit", featureIdx |-> featureIdx]
  /\ UserStep
  /\ UNCHANGED <<surveyVars, geojsonLayers, tableLayerId, rendered, popupVars, net,
                 serverFiles, showPanel, editingLayerId, isDrawing, drawnFeature,
                 editSaving>>

\* The "choose another parcel" button of the reshaping toolbar.
cancelEditFeature ==
  /\ editingLayerId # "null"
  /\ editFeatureIdx # JNull
  /\ ~editSaving
  /\ editFeatureIdx' = JNull
  /\ lastOp' = [op |-> "cancelEditFeature"]
  /\ UserStep
  /\ UNCHANGED <<surveyVars, geojsonLayers, tableLayerId, rendered, popupVars, net,
                 serverFiles, showPanel, editingLayerId, isDrawing, drawnFeature,
                 editSaving>>

\* The select toolbar is shown while nothing is reshaped, drawn or drawn and
\* awaiting its properties.
SelectToolbar ==
  editingLayerId # "null" /\ editFeatureIdx = JNull /\ ~isDrawing /\ drawnFeature = JNull

\* The exit button of the select toolbar and of the reshaping toolbar.
exitEditMode ==
  /\ SelectToolbar \/ (editingLayerId # "null" /\ editFeatureIdx # JNull /\ ~editSaving)
  /\ editingLayerId' = "null"
  /\ editFeatureIdx' = JNull
  /\ isDrawing' = FALSE
  /\ drawnFeature' = JNull
  /\ rendered' = Snapshot(landUseAssignments, geojsonLayers)
  /\ lastOp' = [op |-> "exitEditMode"]
  /\ UserStep
  /\ UNCHANGED <<surveyVars, geojsonLayers, tableLayerId, popupVars, net, serverFiles,
                 showPanel, editSaving>>

\* The "draw a new parcel" button of the select toolbar.
startDrawing ==
  /\ SelectToolbar
  /\ editFeatureIdx' = JNull
  /\ isDrawing' = TRUE
  /\ drawnFeature' = JNull
  /\ lastOp' = [op |-> "startDrawing"]
  /\ UserStep
  /\ UNCHANGED <<surveyVars, geojsonLayers, tableLayerId, rendered, popupVars, net,
                 serverFiles, showPanel, editingLayerId, editSaving>>

\* The cancel button of the drawing toolbar.
cancelDrawing ==
  /\ editingLayerId # "null" /\ isDrawing /\ drawnFeature = JNull
  /\ isDrawing' = FALSE
  /\ rendered' = Snapshot(landUseAssignments, geojsonLayers)
  /\ lastOp' = [op |-> "cancelDrawing"]
  /\ UserStep
  /\ UNCHANGED <<surveyVars, geojsonLayers, tableLayerId, popupVars, net, serverFiles,
                 showPanel, editingLayerId, editFeatureIdx, drawnFeature, editSaving>>

\* The polygon the user has drawn, before it has properties.
DrawnPolygon == [t |-> "feature"]

\* DrawNewFeature (mounted while `editingLayerId && isDrawing && !drawnFeature`)
\* reports the finished polygon.
handleDrawCreated ==
  /\ editingLayerId # "null" /\ isDrawing /\ drawnFeature = JNull
  /\ isDrawing' = FALSE
  /\ drawnFeature' = DrawnPolygon
  /\ lastOp' = [op |-> "handleDrawCreated"]
  /\ UserStep
  /\ UNCHANGED <<surveyVars, geojsonLayers, tableLayerId, rendered, popupVars, net,
                 serverFiles, showPanel, editingLayerId, editFeatureIdx, editSaving>>

\* The feature NewFeaturePropsForm's save button makes of the polygon.
NewFeature == [parcel_cod |-> "p9", Area |-> JStr(Text_1_0_0)]

\* The form's save button and saveNewFeature up to its await.
saveNewFeature ==
  /\ drawnFeature # JNull
  /\ IF ~HasLayer(geojsonLayers, editingLayerId)
       THEN /\ drawnFeature' = JNull
            /\ UNCHANGED <<net, editSaving>>
       ELSE LET ly == geojsonLayers[LayerIdx(geojsonLayers, editingLayerId)]
            IN /\ CanSend
               /\ editSaving' = TRUE
               /\ net' = Append(net,
                      [layerId |-> editingLayerId] @@
                        Request("geojson", "POST",
                                [filename |-> ly.name,
                                 data |-> Append(ly.features, NewFeature)],
                                "saveNewFeature"))
               /\ UNCHANGED drawnFeature
  /\ lastOp' = [op |-> "saveNewFeature"]
  /\ UserStep
  /\ UNCHANGED <<surveyVars, geojsonLayers, tableLayerId, rendered, popupVars,
                 serverFiles, showPanel, editingLayerId, editFeatureIdx, isDrawing>>

\* saveNewFeature after its await: the layer it was called for gets the data.
SaveNewDone(i) ==
  /\ i \in 1..Len(net)
  /\ net[i].state = "done" /\ net[i].then = "saveNewFeature"
  /\ geojsonLayers' =
       [l \in 1..Len(geojsonLayers) |->
          IF geojsonLayers[l].id = net[i].layerId
            THEN [geojsonLayers[l] EXCEPT !.features = net[i].body.data]
          ELSE geojsonLayers[l]]
  /\ drawnFeature' = JNull
  /\ editSaving' = FALSE
  /\ rendered' = Snapshot(landUseAssignments, geojsonLayers')
  /\ popupInfo' = Stale(popupInfo)
  /\ net' = RemoveAt(net, i)
  /\ lastOp' = [op |-> "SaveNewDone"]
  /\ SystemStep
  /\ UNCHANGED <<surveyVars, tableLayerId, selected, areas, serverFiles, showPanel,
                 editingLayerId, editFeatureIdx, isDrawing>>

\* The form's cancel button.
cancelNewFeature ==
  /\ drawnFeature # JNull
  /\ drawnFeature' = JNull
  /\ rendered' = Snapshot(landUseAssignments, geojsonLayers)
  /\ lastOp' = [op |-> "cancelNewFeature"]
  /\ UserStep
  /\ UNCHANGED <<surveyVars, geojsonLayers, tableLayerId, popupVars, net, serverFiles,
                 showPanel, editingLayerId, editFeatureIdx, isDrawing, editSaving>>

\* The reshaping toolbar's save button and saveEditFeature up to its await;
\* SingleFeatureEditor, which fills editCollectRef, is mounted while
\* `editFeatureIdx !== null && !isDrawing`. The shape itself is not modelled.
saveEditFeature ==
  /\ editingLayerId # "null" /\ editFeatureIdx # JNull /\ ~editSaving
  /\ ~isDrawing
  /\ IF ~HasLayer(geojsonLayers, editingLayerId)
       THEN /\ editFeatureIdx' = JNull
            /\ UNCHANGED <<net, editSaving>>
       ELSE LET ly == geojsonLayers[LayerIdx(geojsonLayers, editingLayerId)]
            IN /\ CanSend
               /\ editSaving' = TRUE
               /\ net' = Append(net,
                      [layerId |-> editingLayerId] @@
                        Request("geojson", "POST",
                                [filename |-> ly.name, data |-> ly.features],
                                "saveEditFeature"))
               /\ UNCHANGED editFeatureIdx
  /\ lastOp' = [op |-> "saveEditFeature"]
  /\ UserStep
  /\ UNCHANGED <<surveyVars, geojsonLayers, tableLayerId, rendered, popupVars,
                 serverFiles, showPanel, editingLayerId, isDrawing, drawnFeature>>

\* saveEditFeature after its await.
SaveEditDone(i) ==
  /\ i \in 1..Len(net)
  /\ net[i].state = "done" /\ net[i].then = "saveEditFeature"
  /\ geojsonLayers' =
       [l \in 1..Len(geojsonLayers) |->
          IF geojsonLayers[l].id = net[i].layerId
            THEN [geojsonLayers[l] EXCEPT !.features = net[i].body.data]
          ELSE geojsonLayers[l]]
  /\ editFeatureIdx' = JNull
  /\ editSaving' = FALSE
  /\ rendered' = Snapshot(landUseAssignments, geojsonLayers')
  /\ popupInfo' = Stale(popupInfo)
  /\ net' = RemoveAt(net, i)
  /\ lastOp' = [op |-> "SaveEditDone"]
  /\ SystemStep
  /\ UNCHANGED <<surveyVars, tableLayerId, selected, areas, serverFiles, showPanel,
                 editingLayerId, isDrawing, drawnFeature>>

\* The layers of prev whose id is not id.
WithoutLayer(prev, id) == SelectSeq(prev, LAMBDA l : l.id # id)

\* The panel's remove button of a saved layer (disabled while a layer is
\* edited) and removeLayer up to its await.
removeLayer(id) ==
  /\ showPanel
  /\ HasLayer(geojsonLayers, id)
  /\ editingLayerId = "null"
  /\ CanSend
  /\ net' = Append(net,
         [layerId |-> id, tableLayerId |-> tableLayerId] @@
           Request("geojson", "DELETE",
                   [filename |-> geojsonLayers[LayerIdx(geojsonLayers, id)].name],
                   "removeLayer"))
  /\ lastOp' = [op |-> "removeLayer", id |-> id]
  /\ UserStep
  /\ UNCHANGED <<surveyVars, geojsonLayers, tableLayerId, rendered, popupVars,
                 serverFiles, editVars>>

\* removeLayer after its await: the layer leaves the page.
RemoveDone(i) ==
  /\ i \in 1..Len(net)
  /\ net[i].state = "done" /\ net[i].then = "removeLayer"
  /\ tableLayerId' = IF net[i].tableLayerId = net[i].layerId THEN "null"
                     ELSE tableLayerId
  /\ geojsonLayers' = WithoutLayer(geojsonLayers, net[i].layerId)
  /\ rendered' = Snapshot(landUseAssignments, geojsonLayers')
  /\ popupInfo' = Stale(popupInfo)
  /\ net' = RemoveAt(net, i)
  /\ lastOp' = [op |-> "RemoveDone", id |-> net[i].layerId]
  /\ SystemStep
  /\ UNCHANGED <<surveyVars, selected, areas, serverFiles, editVars>>

\* The panel's remove-all button (drawn for more than one layer) and
\* removeAllLayers up to its first await: the saved layers' files are deleted
\* one after the other.
removeAllLayers ==
  /\ showPanel
  /\ Len(geojsonLayers) > 1
  /\ CanSend
  /\ net' = Append(net,
         [rest |-> Tail([l \in 1..Len(geojsonLayers) |-> geojsonLayers[l].name])] @@
           Request("geojson", "DELETE", [filename |-> geojsonLayers[1].name],
                   "removeAllLayers"))
  /\ lastOp' = [op |-> "removeAllLayers"]
  /\ UserStep
  /\ UNCHANGED <<surveyVars, geojsonLayers, tableLayerId, rendered, popupVars,
                 serverFiles, editVars>>

\* removeAllLayers after an await: the next file is deleted, or, after the
\* last one, every layer leaves the page.
RemoveAllDone(i) ==
  /\ i \in 1..Len(net)
  /\ net[i].state = "done" /\ net[i].then = "removeAllLayers"
  /\ IF net[i].rest # <<>>
       THEN /\ net' = [net EXCEPT ![i] =
                         [rest |-> Tail(net[i].rest)] @@
                           Request("geojson", "DELETE",
                                   [filename |-> Head(net[i].rest)],
                                   "removeAllLayers")]
            /\ UNCHANGED <<geojsonLayers, tableLayerId, rendered, popupInfo>>
       ELSE /\ net' = RemoveAt(net, i)
            /\ tableLayerId' = "null"
            /\ geojsonLayers' = <<>>
            /\ rendered' = Snapshot(landUseAssignments, geojsonLayers')
            /\ popupInfo' = Stale(popupInfo)
  /\ lastOp' = [op |-> "RemoveAllDone"]
  /\ SystemStep
  /\ UNCHANGED <<surveyVars, selected, areas, serverFiles, editVars>>

\* The features the user clicks on the edit-select layer.
ClickedFeatures == {1, 2}

NextEdit ==
  \/ togglePanel
  \/ \E id \in {"L1", "L2"} : toggleTable(id)
  \/ \E id \in {"L1", "L2"} : startEdit(id)
  \/ \E f \in ClickedFeatures : selectFeatureForEdit(f)
  \/ cancelEditFeature
  \/ exitEditMode
  \/ startDrawing
  \/ cancelDrawing
  \/ handleDrawCreated
  \/ saveNewFeature
  \/ \E i \in 1..MaxInFlight : SaveNewDone(i)
  \/ cancelNewFeature
  \/ saveEditFeature
  \/ \E i \in 1..MaxInFlight : SaveEditDone(i)
  \/ \E id \in {"L1", "L2"} : removeLayer(id)
  \/ \E i \in 1..MaxInFlight : RemoveDone(i)
  \/ removeAllLayers
  \/ \E i \in 1..MaxInFlight : RemoveAllDone(i)
  \/ \E i \in 1..MaxInFlight : geojsonHandler(i)

\* The map view with two saved layers, its panel and its edit mode.
SpecEdit == InitTable /\ [][NextEdit]_vars

\* ---------------------------------------------------- C27

\* C27 as stated: whenever editingLayerId is not null it identifies a layer
\* of geojsonLayers: no removal, remove-all included, takes the layer being
\* edited off the page.
C27_EditedLayerIsPresent ==
  editingLayerId # "null" => HasLayer(geojsonLayers, editingLayerId)

\* ---------------------------------------------------- C28

\* C28 as stated: at most one of reshaping a feature (editFeatureIdx is not
\* null), drawing (isDrawing) and entering a drawn feature's properties
\* (drawnFeature is not null) holds, and none holds while editingLayerId is
\* null.
C28_SubModesAreExclusive ==
  /\ ~(editFeatureIdx # JNull /\ isDrawing)
  /\ ~(editFeatureIdx # JNull /\ drawnFeature # JNull)
  /\ ~(isDrawing /\ drawnFeature # JNull)
  /\ editingLayerId = "null" =>
       editFeatureIdx = JNull /\ ~isDrawing /\ drawnFeature = JNull

\* ------------------------------------------------- /api/land-use, any client

\* Requests a client of /api/land-use can send: well-formed and malformed
\* POSTs and PUTs, a GET and a method the handler does not know.
LandUseRequests ==
  { [method |-> "POST",
     body |-> [parcelCode |-> "p1", landUse |-> JObj(<<"industrial">>, EmptyMap)]],
    [method |-> "POST", body |-> [parcelCode |-> "p3", landUse |-> JKey("residential")]],
    [method |-> "POST", body |-> [parcelCode |-> "p2", landUse |-> JStr(<<>>)]],
    [method |-> "POST", body |-> [landUse |-> JKey("residential")]],
    [method |-> "POST", body |-> [parcelCode |-> "", landUse |-> JKey("residential")]],
    [method |-> "PUT",
     body |-> [assignments |->
                 [c \in {"p2", "p3"} |-> JObj(<<"agriculture">>, EmptyMap)]]],
    [method |-> "PUT",
     body |-> [assignments |->
                 [c \in {"p1", "p3"} |->
                    IF c = "p1" THEN JNull ELSE JObj(<<"commercial">>, EmptyMap)]]],
    [method |-> "PUT", body |-> [assignments |-> EmptyMap]],
    [method |-> "PUT", body |-> [parcelCode |-> "p1"]],
    [method |-> "PUT", body |-> [assignments |-> JKey("agriculture")]],
    [method |-> "PUT", body |-> [assignments |-> JNull]],
    [method |-> "DELETE", body |-> [parcelCode |-> "p1"]],
    [method |-> "GET", body |-> EmptyMap] }

\* A client sends a request.
SendLandUse(r) ==
  /\ CanSend
  /\ net' = Append(net, Request("land-use", r.method, r.body, "client"))
  /\ lastOp' = [op |-> "SendLandUse", method |-> r.method]
  /\ UserStep
  /\ UNCHANGED <<pureVars, editVars, surveyMode, layerVars, rendered, landUseAssignments,
                 popupVars, bulkBusy, serverVars>>

\* The client takes the response.
TakeResponse(i) ==
  /\ i \in 1..Len(net)
  /\ net[i].state = "done" /\ net[i].then = "client"
  /\ net' = RemoveAt(net, i)
  /\ lastOp' = [op |-> "TakeResponse"]
  /\ SystemStep
  /\ UNCHANGED <<pureVars, editVars, surveyMode, layerVars, rendered, landUseAssignments,
                 popupVars, bulkBusy, serverVars>>

NextServer ==
  \/ \E r \in LandUseRequests : SendLandUse(r)
  \/ \E i \in 1..MaxInFlight : landUseHandler(i)
  \/ \E i \in 1..MaxInFlight : TakeResponse(i)

\* The allocation store under the requests of any client.
SpecServer == Init /\ [][NextServer]_vars

\* ---------------------------------------------------- C29

\* What the store is to hold after the handler took the request
\* (method, body) with the store at `stored`.
StoreAfter(stored, method, body) ==
  IF method = "POST" /\ "parcelCode" \in DOMAIN body /\ body.parcelCode # ""
    THEN IF Truthy(body.landUse)
           THEN [c \in DOMAIN stored \cup {body.parcelCode} |->
                   IF c = body.parcelCode THEN body.landUse ELSE stored[c]]
         ELSE [c \in DOMAIN stored \ {body.parcelCode} |-> stored[c]]
  ELSE IF /\ method = "PUT" /\ "assignments" \in DOMAIN body
          /\ "t" \notin DOMAIN body.assignments
    THEN LET given == body.assignments
             kept == (DOMAIN stored \ DOMAIN given)
                       \cup {c \in DOMAIN given : Truthy(given[c])}
         IN [c \in kept |-> IF c \in DOMAIN given THEN given[c] ELSE stored[c]]
  ELSE stored

\* C29: a POST with a parcel code and a non-empty landUse sets that parcel's
\* stored value and leaves every other parcel's; a PUT merges the given map
\* over the stored one and leaves the parcels it does not name; a request
\* answered 400 (no parcelCode, no assignments object) or 405 (another method)
\* leaves the store as it is; the store changes only when the handler takes a
\* request, each request acting on what the one handled before it left.
C29_ServerWriteFrame ==
  [][/\ serverAssignments' # serverAssignments =>
          lastOp'.op = "landUseHandler" /\ lastOp'.status = 200
     /\ (lastOp'.op = "landUseHandler" /\ net' # net) =>
          /\ serverAssignments' =
               StoreAfter(serverAssignments, lastOp'.method, lastOp'.body)
          /\ lastOp'.status \in {400, 405} => serverAssignments' = serverAssignments
          /\ lastOp'.status = 405 <=> lastOp'.method \notin {"GET", "POST", "PUT"}
          /\ (lastOp'.method = "PUT" /\ lastOp'.status = 200) =>
               \A c \in (DOMAIN serverAssignments \cup DOMAIN serverAssignments')
                          \ DOMAIN lastOp'.body.assignments :
                 /\ c \in DOMAIN serverAssignments
                 /\ c \in DOMAIN serverAssignments'
                 /\ serverAssignments'[c] = serverAssignments[c]]_vars

C29_Witness ==
  /\ lastOp.op = "landUseHandler"
  /\ lastOp.method = "PUT" /\ lastOp.status = 200
  /\ DOMAIN lastOp.body.assignments = {"p2", "p3"}
  /\ DOMAIN serverAssignments = {"p1", "p2", "p3"}
  /\ serverAssignments["p1"] = JObj(<<"industrial">>, EmptyMap)
  /\ serverAssignments["p3"] = JObj(<<"agriculture">>, EmptyMap)

\* ---------------------------------------------------- normalizeLUFull, called

\* The category lists of at most two keys.
KeyLists == {<<>>} \cup {<<k>> : k \in Keys} \cup {<<k, l>> : k \in Keys, l \in Keys}

AreaMaps ==
  { EmptyMap,
    [k \in {"agriculture"} |-> Text_5_0_0],
    [k \in {"agriculture", "residential"} |->
       IF k = "agriculture" THEN Text_5_0_0 ELSE Text_3_0_0],
    [k \in {"commercial"} |-> Text_1_0_0] }

\* Values the store can hold for a parcel: nothing, an old-format string or
\* array, an object { types, areas }, a number, and objects whose fields hold
\* something else than a list and a map.
StoredValues ==
  {JNull, JUndef, JNaN, JStr(<<>>), JNum(0), JNum(5 * Scale)}
    \cup {JKey(k) : k \in Keys}
    \cup {JArr(l) : l \in KeyLists}
    \cup {JObj(l, m) : l \in KeyLists, m \in AreaMaps}
    \cup {JLoose(ty, ar) :
            ty \in {JUndef, JNull, JKey("agriculture"), JNum(5 * Scale),
                    JArr(<<"agriculture">>)},
            ar \in {JUndef, JKey("x"), JMap(EmptyMap), JArr(<<>>)}}

InitCoerce ==
  /\ arg \in StoredValues
  /\ ret = NoRet
  /\ lastOp = [op |-> "init"]
  /\ Idle

CallNormalizeLUFull ==
  /\ lastOp.op = "init"
  /\ ret' = [t |-> "lu"] @@ normalizeLUFull(arg)
  /\ lastOp' = [op |-> "normalizeLUFull"]
  /\ UNCHANGED <<arg, appVars>>

CallNormalizeLU ==
  /\ lastOp.op = "init"
  /\ ret' = [t |-> "types", types |-> normalizeLU(arg)]
  /\ lastOp' = [op |-> "normalizeLU"]
  /\ UNCHANGED <<arg, appVars>>

NextCoerce == CallNormalizeLUFull \/ CallNormalizeLU

SpecCoerce == InitCoerce /\ [][NextCoerce]_vars

\* ---------------------------------------------------- C30

\* The result as a stored value again.
Renormalized ==
  IF arg.t = "loose" THEN normalizeLUFull(JLoose(ret.types, ret.areas))
  ELSE normalizeLUFull(JObj(ret.types, ret.areas))

\* C30 as stated: normalizeLUFull lifts a falsy value to {[], {}}, a string s
\* to {[s], {}}, an array a to {a, {}}, an object with a types field to its
\* types and its areas or {}, and anything else to {[], {}}; the result
\* always has a list in types and a map in areas, and normalizing the result
\* again gives an equal value.
C30_CoercionGivesListAndMap ==
  lastOp.op = "normalizeLUFull" =>
    /\ ~Truthy(arg) => ret.types = <<>> /\ ret.areas = EmptyMap
    /\ arg.t = "key" => ret.types = <<arg.k>> /\ ret.areas = EmptyMap
    /\ arg.t = "array" => ret.types = arg.items /\ ret.areas = EmptyMap
    /\ arg.t = "object" => ret.types = arg.types /\ ret.areas = arg.areas
    /\ (arg.t = "number" /\ arg.n # 0) => ret.types = <<>> /\ ret.areas = EmptyMap
    /\ arg.t = "loose" =>
         /\ ret.types.t = "array"
         /\ ret.areas.t = "map"
         /\ arg.types.t = "array" => ret.types = arg.types
         /\ Truthy(arg.types) =>
              ret.areas = (IF Truthy(arg.areas) THEN arg.areas ELSE JMap(EmptyMap))
    /\ [types |-> ret.types, areas |-> ret.areas] = Renormalized

====
